---------------------------- MODULE Spec2Model ----------------------------
(***************************************************************************)
(* Model of the rule-based legal-document analyser of                      *)
(* scripts/analisar_processo.py (class AnalisadorJuridico).                *)
(*                                                                         *)
(* A text is a sequence of one-character strings, so that the substring    *)
(* tests, the case folding and the regular expressions of the source are   *)
(* computed character by character, as Python computes them.  An optional  *)
(* value (Optional[str]) is the record None or Some(v).                    *)
(*                                                                         *)
(* The methods are operators of the same names.  Each specification below  *)
(* draws an analyser as __init__ leaves it and the arguments of a call,    *)
(* and its actions make the call: SpecNumero, SpecPartes, SpecDecisao and  *)
(* SpecConfianca call one method each way it can be entered, Spec runs     *)
(* analisar_processo_completo on a whole document.  The specifications     *)
(* after them start before the analyser exists, from what the process      *)
(* finds around it (variable ambiente), and run the entry points.          *)
(***************************************************************************)
EXTENDS Integers, Sequences, FiniteSets, TLC

VARIABLES
    ambiente,           \* what the process finds: models installed, files present, faults
    lista_caminhos,     \* the argument of processar_multiplos_documentos
    argv,               \* sys.argv of main_juridico
    padroes,            \* self.padroes: the Pattern Store (category -> ordered patterns)
    tipos_processuais,  \* self.tipos_processuais: legal area -> keywords
    modelo_embeddings,  \* self.modelo_embeddings is not None
    texto,              \* the text argument of the call
    doc,                \* what self.nlp (spaCy) answers for this text
    sem,                \* what the embedding ranking answers for this text
    pc,                 \* "inicio" before the call, the name of what returned after it
    retorno,            \* the value a method called on its own returned
    informacoes,        \* InformacoesProcessuais
    partes,             \* PartesProcesso
    decisao,            \* Optional[DecisaoJudicial]
    palavras_chave,     \* List[str]
    resumo_executivo,   \* str
    confianca,          \* confianca_analise, in units of 1/700
    chamadas            \* the stages processar_documento_completo has run, with their results

vars == <<ambiente, lista_caminhos, argv, padroes, tipos_processuais, modelo_embeddings, texto, doc, sem, pc, retorno,
          informacoes, partes, decisao, palavras_chave, resumo_executivo, confianca, chamadas>>

-----------------------------------------------------------------------------
(* Python values *)

None == [tem |-> FALSE]
Some(v) == [tem |-> TRUE, val |-> v]

Min(S) == CHOOSE x \in S : \A y \in S : x <= y
Max(S) == CHOOSE x \in S : \A y \in S : x >= y

(* a[:n] *)
Take(s, n) == IF Len(s) <= n THEN s ELSE SubSeq(s, 1, n)

(* F(x), x being evaluated once and before F is: a local variable of the    *)
(* source, assigned before the statements that read it                       *)
Com(x, F(_)) == CHOOSE r \in {F(v) : v \in {x}} : TRUE

(* list(f): the list [f[1], ..., f[n]], its elements computed once *)
Tupla(f) == SubSeq(f, 1, Len(f))

(* the elements of a set of integers between lo and hi, in increasing order *)
RECURSIVE OrdenadoEntre(_, _, _)
OrdenadoEntre(S, lo, hi) ==
    IF S = {} THEN <<>>
    ELSE IF lo = hi THEN <<lo>>
    ELSE OrdenadoEntre({x \in S : x <= (lo + hi) \div 2}, lo, (lo + hi) \div 2)
             \o OrdenadoEntre({x \in S : x > (lo + hi) \div 2}, (lo + hi) \div 2 + 1, hi)

-----------------------------------------------------------------------------
(* Characters: the classes of Python's re for str patterns, restricted to   *)
(* the characters the documents below are written with.                     *)

Digito == {"0", "1", "2", "3", "4", "5", "6", "7", "8", "9"}
Espaco == {" ", "\n", "\t"}
LetraMin == {"a", "b", "c", "d", "e", "f", "g", "h", "i", "j", "k", "l", "m",
             "n", "o", "p", "q", "r", "s", "t", "u", "v", "w", "x", "y", "z"}
LetraMai == {"A", "B", "C", "D", "E", "F", "G", "H", "I", "J", "K", "L", "M",
             "N", "O", "P", "Q", "R", "S", "T", "U", "V", "W", "X", "Y", "Z"}
AcentoMin == {"á", "â", "ã", "ç", "é", "ê", "í", "ó", "ô", "õ", "ú"}
AcentoMai == {"Á", "Â", "Ã", "Ç", "É", "Ê", "Í", "Ó", "Ô", "Õ", "Ú"}
(* \w : letters, digits, underscore; the ordinal signs are letters too *)
Palavra == LetraMin \cup LetraMai \cup AcentoMin \cup AcentoMai \cup Digito \cup {"_", "º", "ª"}

(* str.lower() on one character *)
Maiusculas == <<"A", "B", "C", "D", "E", "F", "G", "H", "I", "J", "K", "L", "M", "N", "O", "P", "Q", "R", "S", "T", "U", "V", "W", "X", "Y", "Z", "Á", "Â", "Ã", "Ç", "É", "Ê", "Í", "Ó", "Ô", "Õ", "Ú">>
Minusculas == <<"a", "b", "c", "d", "e", "f", "g", "h", "i", "j", "k", "l", "m", "n", "o", "p", "q", "r", "s", "t", "u", "v", "w", "x", "y", "z", "á", "â", "ã", "ç", "é", "ê", "í", "ó", "ô", "õ", "ú">>

ToLower(c) ==
    IF c \in LetraMai \cup AcentoMai
    THEN Minusculas[CHOOSE k \in 1..Len(Maiusculas) : Maiusculas[k] = c]
    ELSE c

(* str.lower() *)
Lower(s) == [i \in 1..Len(s) |-> ToLower(s[i])]

(* t occurs in s at position i (1-based) *)
MatchAt(s, i, t) ==
    /\ i >= 1
    /\ i + Len(t) - 1 <= Len(s)
    /\ \A j \in 1..Len(t) : s[i + j - 1] = t[j]

(* the same under re.IGNORECASE, t being written in lower case *)
MatchAtCI(s, i, t) ==
    /\ i >= 1
    /\ i + Len(t) - 1 <= Len(s)
    /\ \A j \in 1..Len(t) : ToLower(s[i + j - 1]) = t[j]

(* t in s *)
Contains(s, t) == \E i \in 1..(Len(s) - Len(t) + 1) : MatchAt(s, i, t)

(* any(term in s for term in termos) *)
ContainsAny(s, termos) == \E k \in 1..Len(termos) : Contains(s, termos[k])

(* the length of the longest run of characters c with (c \in classe) =      *)
(* dentro that starts at position i of s, at most max long: a greedy        *)
(* [classe]{0,max} when dentro, [^classe]{0,max} otherwise                   *)
Corrida(s, i, classe, dentro, max) ==
    LET Para(k) == k = max \/ i + k > Len(s) \/ (s[i + k] \in classe) # dentro
    IN  CHOOSE k \in 0..max : Para(k) /\ \A j \in 0..(k - 1) : ~Para(j)

(* s[a..b] without its leading and trailing white space: <<first, last>>    *)
(* position, last below first when nothing is left                           *)
Aparado(s, a, b) ==
    LET n == b - a + 1
        antes == Corrida(s, a, Espaco, TRUE, n)
        Para(k) == k = n \/ s[b - k] \notin Espaco
        depois == CHOOSE k \in 0..n : Para(k) /\ \A j \in 0..(k - 1) : ~Para(j)
    IN  IF n <= 0 \/ antes = n THEN <<a, a - 1>> ELSE <<a + antes, b - depois>>

(* str.strip() *)
Strip(s) == SubSeq(s, Aparado(s, 1, Len(s))[1], Aparado(s, 1, Len(s))[2])

(* re.sub(r'[^\d]', '', s) *)
SoDigitos(s) == SelectSeq(s, LAMBDA c : c \in Digito)

-----------------------------------------------------------------------------
(* The Pattern Store.  A regular expression of the store is kept as the     *)
(* data that distinguishes it inside its family:                            *)
(*   NUMERO_PROCESSO   the lengths of its digit groups, which an optional   *)
(*                     '-' or '.' separates:  \d{7}[-.]?\d{2}[-.]?...       *)
(*   TIPO_ACAO         the phrases  head\s+(?:alt|alt|...)                   *)
(*   PARTES_PROCESSO,                                                        *)
(*   ADVOGADOS_PROCURADORES                                                  *)
(*                     the role markers of                                   *)
(*                     (?i)(?:m1|m2|..):\s*([A-ZÁÊÇ][A-Za-záêçõ\s]{5,50})    *)
(*   VALORES_MONETARIOS  the currency prefixes of  prefix\s*([\d.,]+)        *)
(*   CUSTAS_SUCUMBENCIA  no store below has patterns of this category        *)
(* A category the store lacks is the empty list: self.padroes.get(c, []).   *)

_padroes_basicos ==
    [NUMERO_PROCESSO |-> << <<7, 2, 4, 1, 2, 4>> >>,
     TIPO_ACAO |-> << [cabeca |-> <<"a", "ç", "ã", "o">>,
                       opcoes |-> <<<<"c", "i", "v", "i", "l">>, <<"p", "e", "n", "a", "l">>, <<"t", "r", "a", "b", "a", "l", "h", "i", "s", "t", "a">>>>] >>,
     PARTES_PROCESSO |-> << <<<<"a", "u", "t", "o", "r">>, <<"r", "é", "u">>>> >>,
     ADVOGADOS_PROCURADORES |-> <<>>,
     VALORES_MONETARIOS |-> <<>>,
     CUSTAS_SUCUMBENCIA |-> <<>>]

_tipos_basicos ==
    << [area |-> <<"C", "I", "V", "E", "L">>,
        keywords |-> <<<<"c", "i", "v", "i", "l">>, <<"i", "n", "d", "e", "n", "i", "z", "a", "ç", "ã", "o">>, <<"d", "a", "n", "o", "s">>, <<"c", "o", "n", "t", "r", "a", "t", "o">>>>],
       [area |-> <<"P", "E", "N", "A", "L">>,
        keywords |-> <<<<"p", "e", "n", "a", "l">>, <<"c", "r", "i", "m", "e">>, <<"d", "e", "n", "ú", "n", "c", "i", "a">>>>],
       [area |-> <<"T", "R", "A", "B", "A", "L", "H", "I", "S", "T", "A">>,
        keywords |-> <<<<"t", "r", "a", "b", "a", "l", "h", "i", "s", "t", "a">>, <<"c", "l", "t">>, <<"e", "m", "p", "r", "e", "g", "a", "d", "o">>>>] >>

TiposYaml ==
    _tipos_basicos \o
    << [area |-> <<"A", "D", "M", "I", "N", "I", "S", "T", "R", "A", "T", "I", "V", "O">>,
        keywords |-> <<<<"a", "d", "m", "i", "n", "i", "s", "t", "r", "a", "t", "i", "v", "o">>, <<"l", "i", "c", "i", "t", "a", "ç", "ã", "o">>, <<"s", "e", "r", "v", "i", "d", "o", "r">>>>] >>

(* patterns_juridicos.yaml is not part of the sources; this store stands    *)
(* for a loaded one: the built-in patterns, a second case-number format,    *)
(* the role markers extrair_partes_processo looks for, an attorney pattern  *)
(* and a monetary pattern.                                                   *)
PadroesYaml ==
    [NUMERO_PROCESSO |-> << <<7, 2, 4, 1, 2, 4>>, <<3, 2, 4, 6, 1>> >>,
     TIPO_ACAO |-> << [cabeca |-> <<"a", "ç", "ã", "o">>,
                       opcoes |-> <<<<"c", "i", "v", "i", "l">>, <<"p", "e", "n", "a", "l">>, <<"t", "r", "a", "b", "a", "l", "h", "i", "s", "t", "a">>>>] >>,
     PARTES_PROCESSO |-> << <<<<"a", "u", "t", "o", "r">>, <<"r", "e", "q", "u", "e", "r", "e", "n", "t", "e">>, <<"r", "é", "u">>, <<"r", "e", "q", "u", "e", "r", "i", "d", "o">>,
                              <<"t", "e", "r", "c", "e", "i", "r", "o">>, <<"a", "s", "s", "i", "s", "t", "e", "n", "t", "e">>>> >>,
     ADVOGADOS_PROCURADORES |-> << <<<<"a", "d", "v", "o", "g", "a", "d", "o">>, <<"a", "d", "v", "o", "g", "a", "d", "a">>>> >>,
     VALORES_MONETARIOS |-> << <<"R", "$">> >>,
     CUSTAS_SUCUMBENCIA |-> <<>>]

-----------------------------------------------------------------------------
(* extrair_numero_processo *)

(* the pattern  \d{g1}[-.]?\d{g2}[-.]?...  read from position i, group g on: *)
(* the position after the match, or 0                                        *)
RECURSIVE CasaNumero(_, _, _, _)
CasaNumero(s, i, grupos, g) ==
    IF g > Len(grupos) THEN i
    ELSE LET j == IF g > 1 /\ i <= Len(s) /\ s[i] \in {"-", "."} THEN i + 1 ELSE i
             n == grupos[g]
         IN  IF j + n - 1 <= Len(s) /\ \A k \in j..(j + n - 1) : s[k] \in Digito
             THEN CasaNumero(s, j + n, grupos, g + 1)
             ELSE 0

(* re.search(padrao, texto) for a case-number pattern: <<start, end>> of the *)
(* leftmost match, or <<0, 0>>                                               *)
BuscaNumero(s, grupos) ==
    LET ini == {i \in 1..Len(s) : CasaNumero(s, i, grupos, 1) # 0}
    IN  IF ini = {} THEN <<0, 0>>
        ELSE <<Min(ini), CasaNumero(s, Min(ini), grupos, 1) - 1>>

(* FormatoCNJ with n[12] where the source has n[13]: the digit of the       *)
(* justice segment is lost and a year digit is repeated                      *)
FormatoCNJ_indice(n) ==
    SubSeq(n, 1, 7) \o <<"-">> \o SubSeq(n, 8, 9) \o <<".">> \o SubSeq(n, 10, 13)
        \o <<".">> \o <<n[13]>> \o <<".">> \o SubSeq(n, 15, 16) \o <<".">>
        \o SubSeq(n, 17, Len(n))

(* f"{n[:7]}-{n[7:9]}.{n[9:13]}.{n[13]}.{n[14:16]}.{n[16:]}" *)
FormatoCNJ(n) ==
    SubSeq(n, 1, 7) \o <<"-">> \o SubSeq(n, 8, 9) \o <<".">> \o SubSeq(n, 10, 13)
        \o <<".">> \o <<n[14]>> \o <<".">> \o SubSeq(n, 15, 16) \o <<".">>
        \o SubSeq(n, 17, Len(n))

(* the loop over the patterns: match.group(1) of the first pattern that     *)
(* matches, None when the loop ends without a match                          *)
RECURSIVE PrimeiraCaptura(_, _, _)
PrimeiraCaptura(lista, k, t) ==
    IF k > Len(lista) THEN None
    ELSE LET m == BuscaNumero(t, lista[k])
         IN  IF m[1] = 0 THEN PrimeiraCaptura(lista, k + 1, t)
             ELSE Some(SubSeq(t, m[1], m[2]))

extrair_numero_processo(self, t) ==
    Com(PrimeiraCaptura(self.padroes.NUMERO_PROCESSO, 1, t), LAMBDA captura :
        IF ~captura.tem THEN None
        ELSE Com(SoDigitos(captura.val), LAMBDA numero_limpo :
                 IF Len(numero_limpo) = 20 THEN Some(FormatoCNJ(numero_limpo))
                 ELSE Some(captura.val)))

-----------------------------------------------------------------------------
(* Pieces of the regular expressions of the source.  A piece is read at a   *)
(* position i of the text s and gives the position after what it matched,   *)
(* or 0 when it does not match; read at 0, the position a piece that did    *)
(* not match gives, it does not match.  A pattern is its pieces, each read  *)
(* at the position the one before it gives.                                  *)

(* [classe]{min,max} when dentro, [^classe]{min,max} otherwise *)
CasaClasse(s, i, classe, dentro, min, max) ==
    IF i = 0 THEN 0
    ELSE LET n == Corrida(s, i, classe, dentro, max)
         IN  IF n >= min THEN i + n ELSE 0

(* \s+ *)
CasaEspacos(s, i) == CasaClasse(s, i, Espaco, TRUE, 1, Len(s))

(* \s* *)
SaltaEspacos(s, i) == CasaClasse(s, i, Espaco, TRUE, 0, Len(s))

(* (?i)[letras], one character of a set written in lower case *)
CasaLetra(s, i, letras) ==
    IF i = 0 \/ i > Len(s) \/ ToLower(s[i]) \notin letras THEN 0 ELSE i + 1

(* (?i)[letras]? *)
CasaLetraOpcional(s, i, letras) ==
    IF i = 0 THEN 0
    ELSE IF i > Len(s) \/ ToLower(s[i]) \notin letras THEN i ELSE i + 1

(* \s*:?\s* *)
CasaDoisPontos(s, i) == SaltaEspacos(s, CasaLetraOpcional(s, SaltaEspacos(s, i), {":"}))

(* (?i)w1\s+w2\s+...\s+wn, from word k on *)
RECURSIVE CasaFrase(_, _, _, _)
CasaFrase(s, i, palavras, k) ==
    IF ~MatchAtCI(s, i, palavras[k]) THEN 0
    ELSE IF k = Len(palavras) THEN i + Len(palavras[k])
    ELSE CasaFrase(s, CasaEspacos(s, i + Len(palavras[k])), palavras, k + 1)

(* the first position of a list that is not 0, or 0 *)
PrimeiraPosicao(posicoes) ==
    IF \A k \in DOMAIN posicoes : posicoes[k] = 0 THEN 0
    ELSE posicoes[Min({k \in DOMAIN posicoes : posicoes[k] # 0})]

(* (?i)(?:frase1|frase2|...): the first alternative that matches decides *)
CasaAlternativa(s, i, frases) ==
    PrimeiraPosicao([k \in 1..Len(frases) |-> CasaFrase(s, i, frases[k], 1)])

(* \d{1,2}[/.-]\d{1,2}[/.-]\d{2,4} *)
CasaData(s, i) ==
    CasaClasse(s,
        CasaLetra(s,
            CasaClasse(s,
                CasaLetra(s,
                    CasaClasse(s, i, Digito, TRUE, 1, 2),
                    {"/", ".", "-"}),
                Digito, TRUE, 1, 2),
            {"/", ".", "-"}),
        Digito, TRUE, 2, 4)

(* a capture group that starts at position e and ends where its pattern     *)
(* does, f being the position after: <<e, f>>, <<0, 0>> without a match     *)
Grupo(e, f) == IF e = 0 \/ f = 0 THEN <<0, 0>> ELSE <<e, f>>

(* re.search, casas[i] being the group of the match that starts at i:       *)
(* <<start, start of the group, position after>> of the leftmost match,     *)
(* <<0, 0, 0>> without one                                                   *)
PrimeiroCasamento(casas) ==
    IF \A i \in DOMAIN casas : casas[i][2] = 0 THEN <<0, 0, 0>>
    ELSE <<Min({i \in DOMAIN casas : casas[i][2] # 0})>>
             \o casas[Min({i \in DOMAIN casas : casas[i][2] # 0})]

(* the same for the rightmost match: re.findall(...)[-1] *)
UltimoCasamento(casas) ==
    IF \A i \in DOMAIN casas : casas[i][2] = 0 THEN <<0, 0, 0>>
    ELSE <<Max({i \in DOMAIN casas : casas[i][2] # 0})>>
             \o casas[Max({i \in DOMAIN casas : casas[i][2] # 0})]

(* match.group(1) of a match m of re.search over t, None without a match *)
TextoDoGrupo(t, m) == IF m[1] = 0 THEN None ELSE Some(SubSeq(t, m[2], m[3] - 1))

(* for padrao in ...: if match: return ... , for two patterns in a row: the *)
(* result of the first one that matched                                      *)
OuEntao(x, y) == IF x.tem THEN x ELSE y

-----------------------------------------------------------------------------
(* identificar_tipo_acao: the elements of the list it returns *)

CasaTipoAcao(s, i, padrao) ==
    CasaAlternativa(s, i, [k \in 1..Len(padrao.opcoes) |-> <<padrao.cabeca, padrao.opcoes[k]>>])

(* re.findall: the texts a pattern matches, casas[i] being the position     *)
(* after the match that starts at i                                          *)
Achados(t, casas) == { SubSeq(t, i, casas[i] - 1) : i \in {i \in DOMAIN casas : casas[i] # 0} }

AchadosTipoAcao(self, t) ==
    UNION { Achados(t, [i \in 1..Len(t) |-> CasaTipoAcao(t, i, self.padroes.TIPO_ACAO[p])]) :
            p \in 1..Len(self.padroes.TIPO_ACAO) }

AreasClassificadas == {<<"C", "I", "V", "E", "L">>, <<"P", "E", "N", "A", "L">>, <<"T", "R", "A", "B", "A", "L", "H", "I", "S", "T", "A">>, <<"A", "D", "M", "I", "N", "I", "S", "T", "R", "A", "T", "I", "V", "O">>}

Pontuacao(keywords, texto_lower) ==
    Cardinality({k \in 1..Len(keywords) : Contains(texto_lower, keywords[k])})

(* AreasPontuadas with one keyword enough: score >= 1 *)
AreasPontuadas_com_uma(self, texto_lower) ==
    { <<"P", "r", "o", "c", "e", "s", "s", "o", " ">> \o Lower(self.tipos_processuais[a].area) :
        a \in {a \in 1..Len(self.tipos_processuais) :
                 /\ self.tipos_processuais[a].area \in AreasClassificadas
                 /\ Pontuacao(self.tipos_processuais[a].keywords, texto_lower) >= 1} }

AreasPontuadas(self, texto_lower) ==
    { <<"P", "r", "o", "c", "e", "s", "s", "o", " ">> \o Lower(self.tipos_processuais[a].area) :
        a \in {a \in 1..Len(self.tipos_processuais) :
                 /\ self.tipos_processuais[a].area \in AreasClassificadas
                 /\ Pontuacao(self.tipos_processuais[a].keywords, texto_lower) >= 2} }

identificar_tipo_acao(self, t) ==
    Com(AchadosTipoAcao(self, t) \cup AreasPontuadas(self, Lower(t)), LAMBDA tipos_encontrados :
        IF tipos_encontrados # {} THEN tipos_encontrados ELSE {<<"T", "i", "p", "o", " ", "n", "ã", "o", " ", "i", "d", "e", "n", "t", "i", "f", "i", "c", "a", "d", "o">>})

-----------------------------------------------------------------------------
(* _extrair_orgao_julgador.  A pattern of padroes_orgao is                  *)
(*   (?i)( [\d+ª\s+] (?:frase|...) [\s+] [^.\n]{0,cauda} )                   *)

padroes_orgao ==
    << [ordinal |-> FALSE, espaco |-> FALSE, cauda |-> 50,
        frases |-> << <<<<"t", "r", "i", "b", "u", "n", "a", "l">>, <<"d", "e">>, <<"j", "u", "s", "t", "i", "ç", "a">>>>,
                      <<<<"t", "r", "i", "b", "u", "n", "a", "l">>, <<"r", "e", "g", "i", "o", "n", "a", "l">>>>,
                      <<<<"t", "r", "i", "b", "u", "n", "a", "l">>, <<"s", "u", "p", "e", "r", "i", "o", "r">>>> >>],
       [ordinal |-> TRUE, espaco |-> TRUE, cauda |-> 50,
        frases |-> << <<<<"v", "a", "r", "a">>>> >>],
       [ordinal |-> FALSE, espaco |-> TRUE, cauda |-> 30,
        frases |-> << <<<<"j", "u", "í", "z", "o">>>> >>],
       [ordinal |-> FALSE, espaco |-> FALSE, cauda |-> 0,
        frases |-> << <<<<"s", "u", "p", "r", "e", "m", "o">>, <<"t", "r", "i", "b", "u", "n", "a", "l">>, <<"f", "e", "d", "e", "r", "a", "l">>>> >>],
       [ordinal |-> FALSE, espaco |-> FALSE, cauda |-> 0,
        frases |-> << <<<<"s", "u", "p", "e", "r", "i", "o", "r">>, <<"t", "r", "i", "b", "u", "n", "a", "l">>, <<"d", "e">>, <<"j", "u", "s", "t", "i", "ç", "a">>>> >>] >>

(* \d+ª\s+ *)
CasaOrdinal(s, i) ==
    CasaEspacos(s, CasaLetra(s, CasaClasse(s, i, Digito, TRUE, 1, Len(s)), {"ª"}))

CasaOrgao(s, i, p) ==
    Com(CasaAlternativa(s, IF p.ordinal THEN CasaOrdinal(s, i) ELSE i, p.frases), LAMBDA f :
        CasaClasse(s, IF p.espaco THEN CasaEspacos(s, f) ELSE f, {".", "\n"}, FALSE, 0, p.cauda))

(* the loop over padroes_orgao from pattern k on: match.group(1) of the     *)
(* first pattern that matches                                                *)
RECURSIVE OrgaoDe(_, _)
OrgaoDe(k, t) ==
    IF k > Len(padroes_orgao) THEN None
    ELSE OuEntao(TextoDoGrupo(t, PrimeiroCasamento(
                     [i \in 1..Len(t) |-> Grupo(i, CasaOrgao(t, i, padroes_orgao[k]))])),
                 OrgaoDe(k + 1, t))

_extrair_orgao_julgador(t) ==
    Com(OrgaoDe(1, t), LAMBDA grupo :
        IF grupo.tem THEN Strip(grupo.val) ELSE <<"Ó", "r", "g", "ã", "o", " ", "n", "ã", "o", " ", "i", "d", "e", "n", "t", "i", "f", "i", "c", "a", "d", "o">>)

-----------------------------------------------------------------------------
(* _identificar_instancia *)

(* _identificar_instancia with the test of the second-instance terms first *)
_identificar_instancia_generico_primeiro(t) ==
    LET texto_lower == Lower(t)
    IN  IF ContainsAny(texto_lower, <<<<"t", "r", "i", "b", "u", "n", "a", "l">>, <<"d", "e", "s", "e", "m", "b", "a", "r", "g", "a", "d", "o", "r">>, <<"a", "p", "e", "l", "a", "ç", "ã", "o">>>>)
        THEN <<"S", "e", "g", "u", "n", "d", "a", " ", "i", "n", "s", "t", "â", "n", "c", "i", "a">>
        ELSE IF ContainsAny(texto_lower, <<<<"s", "u", "p", "r", "e", "m", "o", " ", "t", "r", "i", "b", "u", "n", "a", "l", " ", "f", "e", "d", "e", "r", "a", "l">>, <<"s", "t", "f">>>>)
        THEN <<"S", "u", "p", "r", "e", "m", "o", " ", "T", "r", "i", "b", "u", "n", "a", "l", " ", "F", "e", "d", "e", "r", "a", "l">>
        ELSE IF ContainsAny(texto_lower, <<<<"s", "u", "p", "e", "r", "i", "o", "r", " ", "t", "r", "i", "b", "u", "n", "a", "l", " ", "d", "e", " ", "j", "u", "s", "t", "i", "ç", "a">>, <<"s", "t", "j">>>>)
        THEN <<"S", "u", "p", "e", "r", "i", "o", "r", " ", "T", "r", "i", "b", "u", "n", "a", "l", " ", "d", "e", " ", "J", "u", "s", "t", "i", "ç", "a">>
        ELSE IF ContainsAny(texto_lower, <<<<"v", "a", "r", "a">>, <<"j", "u", "i", "z", " ", "d", "e", " ", "d", "i", "r", "e", "i", "t", "o">>, <<"j", "u", "í", "z", "a", " ", "d", "e", " ", "d", "i", "r", "e", "i", "t", "o">>>>)
        THEN <<"P", "r", "i", "m", "e", "i", "r", "a", " ", "i", "n", "s", "t", "â", "n", "c", "i", "a">>
        ELSE <<"I", "n", "s", "t", "â", "n", "c", "i", "a", " ", "n", "ã", "o", " ", "i", "d", "e", "n", "t", "i", "f", "i", "c", "a", "d", "a">>

_identificar_instancia(t) ==
    LET texto_lower == Lower(t)
    IN  IF ContainsAny(texto_lower, <<<<"s", "u", "p", "r", "e", "m", "o", " ", "t", "r", "i", "b", "u", "n", "a", "l", " ", "f", "e", "d", "e", "r", "a", "l">>, <<"s", "t", "f">>>>)
        THEN <<"S", "u", "p", "r", "e", "m", "o", " ", "T", "r", "i", "b", "u", "n", "a", "l", " ", "F", "e", "d", "e", "r", "a", "l">>
        ELSE IF ContainsAny(texto_lower, <<<<"s", "u", "p", "e", "r", "i", "o", "r", " ", "t", "r", "i", "b", "u", "n", "a", "l", " ", "d", "e", " ", "j", "u", "s", "t", "i", "ç", "a">>, <<"s", "t", "j">>>>)
        THEN <<"S", "u", "p", "e", "r", "i", "o", "r", " ", "T", "r", "i", "b", "u", "n", "a", "l", " ", "d", "e", " ", "J", "u", "s", "t", "i", "ç", "a">>
        ELSE IF ContainsAny(texto_lower, <<<<"t", "r", "i", "b", "u", "n", "a", "l">>, <<"d", "e", "s", "e", "m", "b", "a", "r", "g", "a", "d", "o", "r">>, <<"a", "p", "e", "l", "a", "ç", "ã", "o">>>>)
        THEN <<"S", "e", "g", "u", "n", "d", "a", " ", "i", "n", "s", "t", "â", "n", "c", "i", "a">>
        ELSE IF ContainsAny(texto_lower, <<<<"v", "a", "r", "a">>, <<"j", "u", "i", "z", " ", "d", "e", " ", "d", "i", "r", "e", "i", "t", "o">>, <<"j", "u", "í", "z", "a", " ", "d", "e", " ", "d", "i", "r", "e", "i", "t", "o">>>>)
        THEN <<"P", "r", "i", "m", "e", "i", "r", "a", " ", "i", "n", "s", "t", "â", "n", "c", "i", "a">>
        ELSE <<"I", "n", "s", "t", "â", "n", "c", "i", "a", " ", "n", "ã", "o", " ", "i", "d", "e", "n", "t", "i", "f", "i", "c", "a", "d", "a">>

-----------------------------------------------------------------------------
(* _extrair_data_distribuicao *)

(* (?i)distribu[íi]do?\s+em\s+(date): the group of the match that starts at i *)
CasaDistribuido(s, i) ==
    Com(CasaEspacos(s,
            CasaFrase(s,
                CasaEspacos(s,
                    CasaLetraOpcional(s,
                        CasaLetra(s,
                            CasaLetra(s, CasaFrase(s, i, <<<<"d", "i", "s", "t", "r", "i", "b", "u">>>>, 1), {"í", "i"}),
                            {"d"}),
                        {"o"})),
                <<<<"e", "m">>>>, 1)),
        LAMBDA e : Grupo(e, CasaData(s, e)))

(* (?i)data\s+da?\s+distribui[çc][ãa]o\s*:?\s*(date) *)
CasaDataDistribuicao(s, i) ==
    Com(CasaDoisPontos(s,
            CasaLetra(s,
                CasaLetra(s,
                    CasaLetra(s,
                        CasaFrase(s,
                            CasaEspacos(s,
                                CasaLetraOpcional(s,
                                    CasaFrase(s, i, <<<<"d", "a", "t", "a">>, <<"d">>>>, 1),
                                    {"a"})),
                            <<<<"d", "i", "s", "t", "r", "i", "b", "u", "i">>>>, 1),
                        {"ç", "c"}),
                    {"ã", "a"}),
                {"o"})),
        LAMBDA e : Grupo(e, CasaData(s, e)))

_extrair_data_distribuicao(t) ==
    OuEntao(TextoDoGrupo(t, PrimeiroCasamento([i \in 1..Len(t) |-> CasaDistribuido(t, i)])),
            TextoDoGrupo(t, PrimeiroCasamento([i \in 1..Len(t) |-> CasaDataDistribuicao(t, i)])))

-----------------------------------------------------------------------------
(* _extrair_valor_causa: a monetary pattern is  prefix\s*([\d.,]+)  *)

CasaValor(s, i, prefixo) ==
    Com(SaltaEspacos(s, IF MatchAt(s, i, prefixo) THEN i + Len(prefixo) ELSE 0), LAMBDA b :
        Grupo(b, CasaClasse(s, b, Digito \cup {".", ","}, TRUE, 1, Len(s))))

(* the loop over the patterns from pattern k on: match.group(1) of the      *)
(* first pattern that matches                                                *)
RECURSIVE ValorDe(_, _, _)
ValorDe(lista, k, t) ==
    IF k > Len(lista) THEN None
    ELSE OuEntao(TextoDoGrupo(t, PrimeiroCasamento(
                     [i \in 1..Len(t) |-> CasaValor(t, i, lista[k])])),
                 ValorDe(lista, k + 1, t))

_extrair_valor_causa(self, t) ==
    Com(ValorDe(self.padroes.VALORES_MONETARIOS, 1, t), LAMBDA grupo :
        IF grupo.tem THEN Some(<<"R", "$", " ">> \o grupo.val) ELSE None)

-----------------------------------------------------------------------------
(* extrair_informacoes_processuais.  tipo_acao is list(set(...)): the order  *)
(* of its elements is not defined, so every order is a possible result.     *)

RECURSIVE Permutacoes(_)
Permutacoes(S) ==
    IF S = {} THEN {<<>>}
    ELSE UNION { { <<x>> \o p : p \in Permutacoes(S \ {x}) } : x \in S }

(* x or sentinela, with the empty string in the place of the sentinel *)
Ou_vazio(x, sentinela) == IF x.tem THEN x.val ELSE <<>>

(* x or sentinela, for an Optional[str] x: None and "" are falsy *)
Ou(x, sentinela) == IF x.tem /\ x.val # <<>> THEN x.val ELSE sentinela

extrair_informacoes_processuais(self, t) ==
    { [numero_processo |-> Ou(extrair_numero_processo(self, t), <<"N", "ã", "o", " ", "i", "d", "e", "n", "t", "i", "f", "i", "c", "a", "d", "o">>),
       tipo_acao |-> tipo_acao,
       orgao_julgador |-> _extrair_orgao_julgador(t),
       instancia |-> _identificar_instancia(t),
       data_distribuicao |-> _extrair_data_distribuicao(t),
       valor_causa |-> _extrair_valor_causa(self, t)] :
      tipo_acao \in Permutacoes(identificar_tipo_acao(self, t)) }
-----------------------------------------------------------------------------
(* self.nlp(texto): spaCy's tokens and named entities.  The tokens are the  *)
(* maximal runs of word characters and the single punctuation characters.   *)
(* The statistical tagger is not part of the sources: which spans it        *)
(* labels, and how, is chosen when the document is drawn (variable doc),    *)
(* among the spans that start and end with a capitalised word.              *)

(* the last position of the token that starts at i *)
FimDeToken(s, i) ==
    IF s[i] \in Palavra THEN i + Corrida(s, i, Palavra, TRUE, Len(s)) - 1 ELSE i

(* the tokens of s, each <<first, last>> character position *)
Tokens(s) ==
    Com(OrdenadoEntre({i \in 1..Len(s) :
                         /\ s[i] \notin Espaco
                         /\ \/ i = 1
                            \/ s[i] \notin Palavra
                            \/ s[i - 1] \notin Palavra}, 0, Len(s) + 1),
        LAMBDA o : Tupla([k \in 1..Len(o) |-> <<o[k], FimDeToken(s, o[k])>>]))

(* the spans a tagger may label: inside each run of consecutive word tokens, *)
(* from its first capitalised token to its last one                           *)
Candidatos(s) ==
    Com(Tokens(s), LAMBDA tk :
        LET EhTokPalavra(k) == s[tk[k][1]] \in Palavra
            Maiuscula(k) == s[tk[k][1]] \in LetraMai \cup AcentoMai
            comeco == {k \in 1..Len(tk) : EhTokPalavra(k) /\ (k = 1 \/ ~EhTokPalavra(k - 1))}
            Fim(a) == Max({b \in a..Len(tk) : \A k \in a..b : EhTokPalavra(k)})
            Caps(a) == {k \in a..Fim(a) : Maiuscula(k)}
        IN  { <<tk[Min(Caps(a))][1], tk[Max(Caps(a))][2]>> :
                a \in {a \in comeco : Caps(a) # {}} })

(* the subsets of S with at most n elements *)
RECURSIVE SubconjuntosAte(_, _)
SubconjuntosAte(S, n) ==
    IF n = 0 THEN {{}}
    ELSE LET menores == SubconjuntosAte(S, n - 1)
         IN  menores \cup {T \cup {x} : T \in menores, x \in S}

-----------------------------------------------------------------------------
(* extrair_partes_processo *)

(* [A-ZÁÊÇ] and [A-Za-záêçõ\s] under re.IGNORECASE *)
InicialNome == LetraMai \cup LetraMin \cup {"Á", "Ê", "Ç", "á", "ê", "ç"}
LetraNome == LetraMai \cup LetraMin \cup Espaco \cup {"Á", "Ê", "Ç", "Õ", "á", "ê", "ç", "õ"}

(* (?i)(?:m1|m2|...):\s*([A-ZÁÊÇ][A-Za-záêçõ\s]{5,50}) at position i:        *)
(* <<start of group 1, position after the match>>, or <<0, 0>>               *)
CasaParte(s, i, marcadores) ==
    Com(SaltaEspacos(s,
            CasaLetra(s,
                CasaAlternativa(s, i, [k \in 1..Len(marcadores) |-> <<marcadores[k]>>]),
                {":"})),
        LAMBDA b : Grupo(b, CasaClasse(s, CasaClasse(s, b, InicialNome, TRUE, 1, 1),
                                       LetraNome, TRUE, 5, 50)))

(* re.finditer: the successive non-overlapping matches from position pos on, *)
(* each <<start, start of group 1, position after>>; casas[i] is the group   *)
(* of the match that starts at i                                              *)
RECURSIVE Sucessivos(_, _)
Sucessivos(casas, pos) ==
    IF \A i \in pos..Len(casas) : casas[i][2] = 0 THEN <<>>
    ELSE LET i == Min({j \in pos..Len(casas) : casas[j][2] # 0})
         IN  <<<<i, casas[i][1], casas[i][2]>>>> \o Sucessivos(casas, casas[i][2])

AchadosParte(s, marcadores) ==
    Sucessivos(Tupla([i \in 1..Len(s) |-> CasaParte(s, i, marcadores)]), 1)

(* all the matches of all the patterns of a category, in the order met *)
RECURSIVE AchadosCategoria(_, _, _)
AchadosCategoria(s, lista, k) ==
    IF k > Len(lista) THEN <<>>
    ELSE AchadosParte(s, lista[k]) \o AchadosCategoria(s, lista, k + 1)

(* lista.append(x) without the test 'x not in lista' before it *)
Acrescenta_sem_teste(lista, x) == Append(lista, x)

(* if x not in lista: lista.append(x) *)
Acrescenta(lista, x) == IF \E k \in 1..Len(lista) : lista[k] = x THEN lista ELSE Append(lista, x)
Pertence(x, lista) == \E k \in 1..Len(lista) : lista[k] = x

(* one turn of the loop over the matches of the party patterns *)
ClassificaParte(acc, parte, contexto) ==
    IF ContainsAny(contexto, <<<<"a", "u", "t", "o", "r">>, <<"r", "e", "q", "u", "e", "r", "e", "n", "t", "e">>, <<"i", "m", "p", "e", "t", "r", "a", "n", "t", "e">>>>)
    THEN [acc EXCEPT !.autores = Acrescenta(@, parte)]
    ELSE IF ContainsAny(contexto, <<<<"r", "é", "u">>, <<"r", "e", "q", "u", "e", "r", "i", "d", "o">>, <<"i", "m", "p", "e", "t", "r", "a", "d", "o">>>>)
    THEN [acc EXCEPT !.reus = Acrescenta(@, parte)]
    ELSE IF ContainsAny(contexto, <<<<"t", "e", "r", "c", "e", "i", "r", "o">>, <<"a", "s", "s", "i", "s", "t", "e", "n", "t", "e">>>>)
    THEN [acc EXCEPT !.terceiros = Acrescenta(@, parte)]
    ELSE acc

(* the loop over the party patterns, from match k on *)
RECURSIVE ClassificaPartes(_, _, _, _)
ClassificaPartes(s, achados, k, acc) ==
    IF k > Len(achados) THEN acc
    ELSE Com(ClassificaParte(acc,
                 Strip(SubSeq(s, achados[k][2], achados[k][3] - 1)),
                 Lower(SubSeq(s, achados[k][1], achados[k][3] - 1))),
             LAMBDA seguinte : ClassificaPartes(s, achados, k + 1, seguinte))

(* the attorney loop: findall gives group 1; kept when longer than 5 *)
RECURSIVE ColheAdvogados(_, _, _, _)
ColheAdvogados(s, achados, k, acc) ==
    IF k > Len(achados) THEN acc
    ELSE LET advogado == SubSeq(s, achados[k][2], achados[k][3] - 1)
         IN  Com(IF Len(advogado) > 5
                 THEN [acc EXCEPT !.advogados = Append(@, Strip(advogado))]
                 ELSE acc,
                 LAMBDA seguinte : ColheAdvogados(s, achados, k + 1, seguinte))

(* doc[a:b].text.lower() for the token slice a..b (1-based, inclusive) *)
TextoTokens(s, tk, a, b) == IF a > b THEN <<>> ELSE Lower(SubSeq(s, tk[a][1], tk[b][2]))

(* contexto_completo of the entity whose first token is start and whose     *)
(* last token is end                                                         *)
ContextoEntidade(s, tk, start, end) ==
    TextoTokens(s, tk, Max({1, start - 10}), start - 1)
        \o <<" ">> \o TextoTokens(s, tk, end + 1, Min({Len(tk), end + 10}))

(* what the loop over doc.ents does with an entity of text nome *)
ClassificaNome(acc, ent, nome, contexto_completo) ==
    IF /\ ent.label = "PER"
       /\ ent.fim - ent.ini + 1 > 5
       /\ ~Pertence(nome, acc.autores) /\ ~Pertence(nome, acc.reus)
       /\ ~Pertence(nome, acc.terceiros) /\ ~Pertence(nome, acc.advogados)
    THEN IF ContainsAny(contexto_completo, <<<<"a", "u", "t", "o", "r">>, <<"r", "e", "q", "u", "e", "r", "e", "n", "t", "e">>>>)
         THEN [acc EXCEPT !.autores = Append(@, nome)]
         ELSE IF ContainsAny(contexto_completo, <<<<"r", "é", "u">>, <<"r", "e", "q", "u", "e", "r", "i", "d", "o">>>>)
         THEN [acc EXCEPT !.reus = Append(@, nome)]
         ELSE acc
    ELSE acc

(* one turn of the loop over doc.ents *)
ClassificaEntidade(s, tk, ent, acc) ==
    ClassificaNome(acc, ent, Strip(SubSeq(s, ent.ini, ent.fim)),
        ContextoEntidade(s, tk, CHOOSE a \in 1..Len(tk) : tk[a][1] = ent.ini,
                                CHOOSE b \in 1..Len(tk) : tk[b][2] = ent.fim))

(* the loop over doc.ents (ents in document order), from entity k on *)
RECURSIVE ClassificaEntidades(_, _, _, _, _)
ClassificaEntidades(s, tk, ents, k, acc) ==
    IF k > Len(ents) THEN acc
    ELSE Com(ClassificaEntidade(s, tk, ents[k], acc), LAMBDA seguinte :
             ClassificaEntidades(s, tk, ents, k + 1, seguinte))

(* doc.ents in document order *)
EntidadesEmOrdem(s, d) ==
    Com(OrdenadoEntre({e.ini : e \in d.ents}, 0, Len(s) + 1), LAMBDA o :
        Tupla([k \in 1..Len(o) |-> CHOOSE e \in d.ents : e.ini = o[k]]))

NerJanela == 50000
LimiteAutores == 5
LimiteReus == 5
LimiteTerceiros == 3
LimiteAdvogados == 10

(* the four lists before PartesProcesso(...) is built: the loop over the    *)
(* entities of doc = self.nlp(janela), after the attorney loop, after the   *)
(* loop over the party patterns, which starts with the lists empty          *)
ListasPartes(self, t, d) ==
    Com(Take(t, NerJanela), LAMBDA janela :
    Com(ClassificaPartes(t, AchadosCategoria(t, self.padroes.PARTES_PROCESSO, 1), 1,
            [autores |-> <<>>, reus |-> <<>>, terceiros |-> <<>>, advogados |-> <<>>]),
        LAMBDA com_partes :
    Com(ColheAdvogados(t, AchadosCategoria(t, self.padroes.ADVOGADOS_PROCURADORES, 1), 1,
            com_partes),
        LAMBDA com_advogados :
        ClassificaEntidades(janela, Tokens(janela), EntidadesEmOrdem(janela, d), 1,
            com_advogados))))

(* list(set(advogados))[:10]: the set's iteration order is not defined, so  *)
(* any LimiteAdvogados of the distinct names may be kept.  advogados is     *)
(* kept as the set of its elements.                                          *)
CortesAdvogados(advogados) ==
    LET todos == {advogados[k] : k \in 1..Len(advogados)}
    IN  IF Cardinality(todos) <= LimiteAdvogados THEN {todos}
        ELSE {todos \ fora : fora \in {f \in SubconjuntosAte(todos, Cardinality(todos) - LimiteAdvogados) :
                                         Cardinality(f) = Cardinality(todos) - LimiteAdvogados}}

(* extrair_partes_processo without the slices of its return statement *)
extrair_partes_processo_sem_cortes(self, t, d) ==
    Com(ListasPartes(self, t, d), LAMBDA l :
        { [autores |-> l.autores, reus |-> l.reus, terceiros |-> l.terceiros,
           advogados |-> {l.advogados[k] : k \in 1..Len(l.advogados)}] })

(* the PartesProcesso values extrair_partes_processo may return *)
extrair_partes_processo(self, t, d) ==
    Com(ListasPartes(self, t, d), LAMBDA l :
        { [autores |-> Take(l.autores, LimiteAutores),
           reus |-> Take(l.reus, LimiteReus),
           terceiros |-> Take(l.terceiros, LimiteTerceiros),
           advogados |-> adv] : adv \in CortesAdvogados(l.advogados) })

-----------------------------------------------------------------------------
(* analisar_decisao and its helpers *)

(* _classificar_tipo_decisao with its first two tests in the other order *)
_classificar_tipo_decisao_acordao_primeiro(t) ==
    LET texto_lower == Lower(t)
    IN  IF Contains(texto_lower, <<"a", "c", "ó", "r", "d", "ã", "o">>) THEN <<"A", "c", "ó", "r", "d", "ã", "o">>
        ELSE IF Contains(texto_lower, <<"s", "e", "n", "t", "e", "n", "ç", "a">>) THEN <<"S", "e", "n", "t", "e", "n", "ç", "a">>
        ELSE IF ContainsAny(texto_lower, <<<<"d", "e", "c", "i", "s", "ã", "o", " ", "i", "n", "t", "e", "r", "l", "o", "c", "u", "t", "ó", "r", "i", "a">>, <<"d", "e", "f", "i", "r", "o">>, <<"i", "n", "d", "e", "f", "i", "r", "o">>>>)
        THEN <<"D", "e", "c", "i", "s", "ã", "o", " ", "i", "n", "t", "e", "r", "l", "o", "c", "u", "t", "ó", "r", "i", "a">>
        ELSE IF Contains(texto_lower, <<"d", "e", "s", "p", "a", "c", "h", "o">>) THEN <<"D", "e", "s", "p", "a", "c", "h", "o">>
        ELSE <<"D", "e", "c", "i", "s", "ã", "o", " ", "n", "ã", "o", " ", "c", "l", "a", "s", "s", "i", "f", "i", "c", "a", "d", "a">>

(* _classificar_tipo_decisao *)
_classificar_tipo_decisao(t) ==
    LET texto_lower == Lower(t)
    IN  IF Contains(texto_lower, <<"s", "e", "n", "t", "e", "n", "ç", "a">>) THEN <<"S", "e", "n", "t", "e", "n", "ç", "a">>
        ELSE IF Contains(texto_lower, <<"a", "c", "ó", "r", "d", "ã", "o">>) THEN <<"A", "c", "ó", "r", "d", "ã", "o">>
        ELSE IF ContainsAny(texto_lower, <<<<"d", "e", "c", "i", "s", "ã", "o", " ", "i", "n", "t", "e", "r", "l", "o", "c", "u", "t", "ó", "r", "i", "a">>, <<"d", "e", "f", "i", "r", "o">>, <<"i", "n", "d", "e", "f", "i", "r", "o">>>>)
        THEN <<"D", "e", "c", "i", "s", "ã", "o", " ", "i", "n", "t", "e", "r", "l", "o", "c", "u", "t", "ó", "r", "i", "a">>
        ELSE IF Contains(texto_lower, <<"d", "e", "s", "p", "a", "c", "h", "o">>) THEN <<"D", "e", "s", "p", "a", "c", "h", "o">>
        ELSE <<"D", "e", "c", "i", "s", "ã", "o", " ", "n", "ã", "o", " ", "c", "l", "a", "s", "s", "i", "f", "i", "c", "a", "d", "a">>

(* _determinar_resultado_decisao *)
_determinar_resultado_decisao(dispositivo) ==
    LET dispositivo_lower == Lower(dispositivo)
    IN  IF Contains(dispositivo_lower, <<"p", "r", "o", "c", "e", "d", "e", "n", "t", "e">>) /\ ~Contains(dispositivo_lower, <<"i", "m", "p", "r", "o", "c", "e", "d", "e", "n", "t", "e">>)
        THEN <<"P", "r", "o", "c", "e", "d", "e", "n", "t", "e">>
        ELSE IF Contains(dispositivo_lower, <<"i", "m", "p", "r", "o", "c", "e", "d", "e", "n", "t", "e">>) THEN <<"I", "m", "p", "r", "o", "c", "e", "d", "e", "n", "t", "e">>
        ELSE IF Contains(dispositivo_lower, <<"p", "a", "r", "c", "i", "a", "l", "m", "e", "n", "t", "e", " ", "p", "r", "o", "c", "e", "d", "e", "n", "t", "e">>)
        THEN <<"P", "a", "r", "c", "i", "a", "l", "m", "e", "n", "t", "e", " ", "p", "r", "o", "c", "e", "d", "e", "n", "t", "e">>
        ELSE IF ContainsAny(dispositivo_lower, <<<<"d", "e", "f", "i", "r", "o">>, <<"c", "o", "n", "c", "e", "d", "o">>>>) THEN <<"D", "e", "f", "e", "r", "i", "d", "o">>
        ELSE IF ContainsAny(dispositivo_lower, <<<<"i", "n", "d", "e", "f", "i", "r", "o">>, <<"d", "e", "n", "e", "g", "o">>>>) THEN <<"I", "n", "d", "e", "f", "e", "r", "i", "d", "o">>
        ELSE IF Contains(dispositivo_lower, <<"e", "x", "t", "i", "n", "t", "o">>) THEN <<"P", "r", "o", "c", "e", "s", "s", "o", " ", "e", "x", "t", "i", "n", "t", "o">>
        ELSE <<"R", "e", "s", "u", "l", "t", "a", "d", "o", " ", "n", "ã", "o", " ", "d", "e", "t", "e", "r", "m", "i", "n", "a", "d", "o">>

(* ([^.]{min,max}) at position i: the position after the capture, or 0 *)
CasaTrecho(s, i, min, max) == CasaClasse(s, i, {"."}, FALSE, min, max)

(* [^.]*\. *)
CasaPonto(s, i) == CasaLetra(s, CasaClasse(s, i, {"."}, FALSE, 0, Len(s)), {"."})

(* ([^.]+\.) at position i: the position after the capture, or 0 *)
CasaOracao(s, i) == CasaLetra(s, CasaClasse(s, i, {"."}, FALSE, 1, Len(s)), {"."})

(* (?i)(?:frase|...)[^.]*\.  at position i: the position after the dot, or 0 *)
CasaAteOPonto(s, i, frases) == CasaPonto(s, CasaAlternativa(s, i, frases))

(* (?i)(?:dispositivo|decido|julgo|determino)[:\s]([^.]+\.) :               *)
(* <<start of group 1, position after>>                                      *)
CasaDispositivo1(s, i) ==
    Com(CasaLetra(s,
            CasaAlternativa(s, i, << <<<<"d", "i", "s", "p", "o", "s", "i", "t", "i", "v", "o">>>>, <<<<"d", "e", "c", "i", "d", "o">>>>, <<<<"j", "u", "l", "g", "o">>>>,
                                     <<<<"d", "e", "t", "e", "r", "m", "i", "n", "o">>>> >>),
            Espaco \cup {":"}),
        LAMBDA b : Grupo(b, CasaOracao(s, b)))

(* (?i)(?:pelo\s+exposto|ante\s+o\s+exposto|isso\s+posto)[^.]*\.([^.]+\.) *)
CasaDispositivo2(s, i) ==
    Com(CasaAteOPonto(s, i, << <<<<"p", "e", "l", "o">>, <<"e", "x", "p", "o", "s", "t", "o">>>>, <<<<"a", "n", "t", "e">>, <<"o">>, <<"e", "x", "p", "o", "s", "t", "o">>>>,
                               <<<<"i", "s", "s", "o">>, <<"p", "o", "s", "t", "o">>>> >>),
        LAMBDA b : Grupo(b, CasaOracao(s, b)))

(* Dispositivo with the two patterns tried in the other order *)
Dispositivo_transicao_primeiro(t) ==
    Com(OuEntao(
            TextoDoGrupo(t, PrimeiroCasamento([i \in 1..Len(t) |-> CasaDispositivo2(t, i)])),
            TextoDoGrupo(t, PrimeiroCasamento([i \in 1..Len(t) |-> CasaDispositivo1(t, i)]))),
        LAMBDA grupo : IF grupo.tem THEN grupo.val ELSE <<>>)

(* the first capture of padroes_dispositivo, or the empty string *)
Dispositivo(t) ==
    Com(OuEntao(
            TextoDoGrupo(t, PrimeiroCasamento([i \in 1..Len(t) |-> CasaDispositivo1(t, i)])),
            TextoDoGrupo(t, PrimeiroCasamento([i \in 1..Len(t) |-> CasaDispositivo2(t, i)]))),
        LAMBDA grupo : IF grupo.tem THEN grupo.val ELSE <<>>)

LimiteFundamentacao == 300

(* x.strip()[:300] + "..." if len(x) > 300 else x.strip() *)
Resumir(fundamentacao) ==
    IF Len(fundamentacao) > LimiteFundamentacao
    THEN Take(Strip(fundamentacao), LimiteFundamentacao) \o <<".", ".", ".">>
    ELSE Strip(fundamentacao)

(* (?i)fundamenta[çc][ãa]o[:\s]([^.]{100,500}) : <<start of group 1, after>> *)
CasaFundamentacao1(s, i) ==
    Com(CasaLetra(s,
            CasaLetra(s,
                CasaLetra(s,
                    CasaLetra(s, CasaFrase(s, i, <<<<"f", "u", "n", "d", "a", "m", "e", "n", "t", "a">>>>, 1), {"ç", "c"}),
                    {"ã", "a"}),
                {"o"}),
            Espaco \cup {":"}),
        LAMBDA b : Grupo(b, CasaTrecho(s, b, 100, 500)))

(* (?i)(?:considerando|tendo\s+em\s+vista)[^.]*\.([^.]{100,300}) *)
CasaFundamentacao2(s, i) ==
    Com(CasaAteOPonto(s, i, << <<<<"c", "o", "n", "s", "i", "d", "e", "r", "a", "n", "d", "o">>>>, <<<<"t", "e", "n", "d", "o">>, <<"e", "m">>, <<"v", "i", "s", "t", "a">>>> >>),
        LAMBDA b : Grupo(b, CasaTrecho(s, b, 100, 300)))

(* texto.split('\n'), stripped, those longer than 50 kept: each paragraph   *)
(* <<first, last>> position of the stripped text                             *)
RECURSIVE ParagrafosDesde(_, _)
ParagrafosDesde(s, i) ==
    LET n == Corrida(s, i, {"\n"}, FALSE, Len(s))
        p == Aparado(s, i, i + n - 1)
        resto == IF i + n > Len(s) THEN <<>> ELSE ParagrafosDesde(s, i + n + 1)
    IN  IF p[2] - p[1] + 1 > 50 THEN <<p>> \o resto ELSE resto

Paragrafos(s) == ParagrafosDesde(s, 1)

(* what the embedding ranking may answer for a text: an exception, or the   *)
(* positions of the two most similar paragraphs, np.argsort(...)[-2:]       *)
RespostasSemanticas(s) ==
    Com(Len(Paragrafos(s)), LAMBDA n :
        IF n < 3 THEN {[erro |-> FALSE, topo |-> <<>>]}
        ELSE {[erro |-> TRUE, topo |-> <<>>]}
             \cup {[erro |-> FALSE, topo |-> par] :
                     par \in {<<a, b>> \in (1..n) \X (1..n) : a # b}})

(* " ".join([paragrafos[i] for i in indices_top]) *)
Juncao(t, paragrafos, topo) ==
    SubSeq(t, paragrafos[topo[1]][1], paragrafos[topo[1]][2])
        \o <<" ">> \o SubSeq(t, paragrafos[topo[2]][1], paragrafos[topo[2]][2])

(* _extrair_fundamentacao_semantica *)
_extrair_fundamentacao_semantica(self, t, resposta) ==
    IF ~self.modelo_embeddings
    THEN <<"F", "u", "n", "d", "a", "m", "e", "n", "t", "a", "ç", "ã", "o", " ", "n", "ã", "o", " ", "d", "i", "s", "p", "o", "n", "í", "v", "e", "l", " ", "(", "m", "o", "d", "e", "l", "o", " ", "n", "ã", "o", " ", "c", "a", "r", "r", "e", "g", "a", "d", "o", ")">>
    ELSE Com(Paragrafos(t), LAMBDA paragrafos :
             IF Len(paragrafos) < 3 THEN <<"T", "e", "x", "t", "o", " ", "i", "n", "s", "u", "f", "i", "c", "i", "e", "n", "t", "e", " ", "p", "a", "r", "a", " ", "a", "n", "á", "l", "i", "s", "e", " ", "s", "e", "m", "â", "n", "t", "i", "c", "a">>
             ELSE IF resposta.erro THEN <<"E", "r", "r", "o", " ", "n", "a", " ", "e", "x", "t", "r", "a", "ç", "ã", "o", " ", "s", "e", "m", "â", "n", "t", "i", "c", "a", " ", "d", "a", " ", "f", "u", "n", "d", "a", "m", "e", "n", "t", "a", "ç", "ã", "o">>
             ELSE Com(Juncao(t, paragrafos, resposta.topo), LAMBDA fundamentacao :
                      IF Len(fundamentacao) > LimiteFundamentacao
                      THEN Take(fundamentacao, LimiteFundamentacao) \o <<".", ".", ".">>
                      ELSE fundamentacao))

(* _extrair_fundamentacao_resumida *)
_extrair_fundamentacao_resumida(self, t, resposta) ==
    Com(OuEntao(
            TextoDoGrupo(t, PrimeiroCasamento([i \in 1..Len(t) |-> CasaFundamentacao1(t, i)])),
            TextoDoGrupo(t, PrimeiroCasamento([i \in 1..Len(t) |-> CasaFundamentacao2(t, i)]))),
        LAMBDA grupo :
            IF grupo.tem THEN Resumir(grupo.val)
            ELSE _extrair_fundamentacao_semantica(self, t, resposta))

(* padroes_data_decisao:  (?i)(?:frase|...)\s+(date)  or, with dois_pontos, *)
(* (?i)(?:frase|...)\s*:?\s*(date)                                           *)
padroes_data_decisao ==
    << [dois_pontos |-> FALSE,
        frases |-> << <<<<"j", "u", "l", "g", "a", "d", "o">>, <<"e", "m">>>>, <<<<"d", "e", "c", "i", "d", "i", "d", "o">>, <<"e", "m">>>>,
                      <<<<"s", "e", "n", "t", "e", "n", "c", "i", "a", "d", "o">>, <<"e", "m">>>> >>],
       [dois_pontos |-> TRUE,
        frases |-> << <<<<"d", "a", "t", "a">>, <<"d", "a">>, <<"s", "e", "n", "t", "e", "n", "ç", "a">>>>, <<<<"d", "a", "t", "a">>, <<"d", "a">>, <<"d", "e", "c", "i", "s", "ã", "o">>>>,
                      <<<<"d", "a", "t", "a">>, <<"d", "a">>, <<"j", "u", "l", "g", "a", "m", "e", "n", "t", "o">>>>, <<<<"d", "a", "t", "a">>, <<"d">>, <<"s", "e", "n", "t", "e", "n", "ç", "a">>>>,
                      <<<<"d", "a", "t", "a">>, <<"d">>, <<"d", "e", "c", "i", "s", "ã", "o">>>>, <<<<"d", "a", "t", "a">>, <<"d">>, <<"j", "u", "l", "g", "a", "m", "e", "n", "t", "o">>>> >>],
       [dois_pontos |-> FALSE,
        frases |-> << <<<<"e", "m">>>>, <<<<"a", "o", "s">>>>, <<<<"a", "o">>>> >>] >>

(* a pattern of padroes_data_decisao: <<start of the date, after>> *)
CasaDataDecisao(s, i, p) ==
    Com(CasaAlternativa(s, i, p.frases), LAMBDA a :
        Com(IF p.dois_pontos THEN CasaDoisPontos(s, a) ELSE CasaEspacos(s, a), LAMBDA e :
            Grupo(e, CasaData(s, e))))

(* _extrair_data_decisao: the last match of the first pattern that matches *)
RECURSIVE DataDecisaoDe(_, _)
DataDecisaoDe(k, t) ==
    IF k > Len(padroes_data_decisao) THEN None
    ELSE OuEntao(TextoDoGrupo(t, UltimoCasamento(
                     [i \in 1..Len(t) |-> CasaDataDecisao(t, i, padroes_data_decisao[k])])),
                 DataDecisaoDe(k + 1, t))

_extrair_data_decisao(t) == DataDecisaoDe(1, t)

(* DecisaoJudicial(...) for a text whose operative clause is dispositivo *)
DecisaoJudicial(self, t, resposta, dispositivo) ==
    Some([tipo_decisao |-> _classificar_tipo_decisao(t),
          resultado |-> _determinar_resultado_decisao(dispositivo),
          dispositivo |-> Strip(dispositivo),
          fundamentacao_resumida |-> _extrair_fundamentacao_resumida(self, t, resposta),
          data_decisao |-> _extrair_data_decisao(t)])

(* analisar_decisao without the early return for a text that has no         *)
(* operative clause                                                          *)
analisar_decisao_sem_retorno(self, t, resposta) ==
    DecisaoJudicial(self, t, resposta, Dispositivo(t))

(* analisar_decisao *)
analisar_decisao(self, t, resposta) ==
    Com(Dispositivo(t), LAMBDA dispositivo :
        IF dispositivo = <<>> THEN None ELSE DecisaoJudicial(self, t, resposta, dispositivo))

-----------------------------------------------------------------------------
(* extrair_palavras_chave *)

(* the characters of the documents in the order of ord(c) *)
Ordem ==
    <<"\t", "\n">> \o <<" ", "$", "(", ")", ",", "-", ".", "/", "0", "1", "2", "3", "4", "5", "6", "7", "8", "9", ":", ";", "A", "B", "C", "D", "E", "F", "G", "H", "I", "J", "K", "L", "M", "N", "O", "P", "Q", "R", "S", "T", "U", "V", "W", "X", "Y", "Z", "_">>
        \o <<"a", "b", "c", "d", "e", "f", "g", "h", "i", "j", "k", "l", "m", "n", "o", "p", "q", "r", "s", "t", "u", "v", "w", "x", "y", "z", "|", "ª", "º", "Á", "Â", "Ã", "Ç", "É", "Ê", "Í", "Ó", "Ô", "Õ", "Ú", "á", "â", "ã", "ç", "é", "ê", "í", "ó", "ô", "õ", "ú">>

(* the place of c in that order, which compares as ord(c) does *)
CodePoint(c) == CHOOSE k \in 1..Len(Ordem) : Ordem[k] = c

(* a < b for Python strings *)
Menor(a, b) ==
    \E k \in 1..Len(b) :
        /\ \A j \in 1..(k - 1) : j <= Len(a) /\ a[j] = b[j]
        /\ k > Len(a) \/ CodePoint(a[k]) < CodePoint(b[k])

(* sorted(S) for a set of strings *)
RECURSIVE Sorted(_)
Sorted(S) ==
    IF S = {} THEN <<>>
    ELSE LET x == CHOOSE x \in S : TRUE
         IN  Sorted({y \in S : Menor(y, x)}) \o <<x>> \o Sorted({y \in S : Menor(x, y)})

EhLetra(c) == c \in LetraMin \cup LetraMai \cup AcentoMin \cup AcentoMai \cup {"º", "ª"}

(* the tokens tagged NOUN that the loop keeps.  The tagger and the          *)
(* lemmatiser are not part of the sources: the tagger tags every alphabetic *)
(* token or none (doc.substantivos), and the lemma of a token is its text.  *)
BonsTokens(s, tk, d) ==
    {k \in 1..Len(tk) :
       /\ d.substantivos
       /\ tk[k][2] - tk[k][1] + 1 > 4
       /\ \A i \in tk[k][1]..tk[k][2] : EhLetra(s[i])}

(* the list substantivos: token.lemma_.lower() of those tokens, in token order *)
Substantivos(s, d) ==
    Com(Tokens(s), LAMBDA tk :
        Com(OrdenadoEntre(BonsTokens(s, tk, d), 0, Len(tk) + 1), LAMBDA o :
            Tupla([k \in 1..Len(o) |-> Lower(SubSeq(s, tk[o[k]][1], tk[o[k]][2]))])))

(* the first occurrences of the words that occur at least twice *)
PrimeirasOcorrencias(substantivos) ==
    {k \in 1..Len(substantivos) :
       /\ Cardinality({j \in 1..Len(substantivos) : substantivos[j] = substantivos[k]}) >= 2
       /\ \A j \in 1..(k - 1) : substantivos[j] # substantivos[k]}

(* [p for p, freq in Counter(substantivos).items() if freq >= 2][:10] *)
PalavrasImportantes(substantivos) ==
    Com(OrdenadoEntre(PrimeirasOcorrencias(substantivos), 0, Len(substantivos) + 1), LAMBDA o :
        Take(Tupla([k \in 1..Len(o) |-> substantivos[o[k]]]), 10))

termos_juridicos ==
    <<<<"d", "i", "r", "e", "i", "t", "o">>, <<"l", "e", "i">>, <<"a", "r", "t", "i", "g", "o">>, <<"c", "ó", "d", "i", "g", "o">>, <<"n", "o", "r", "m", "a">>, <<"j", "u", "r", "i", "s", "p", "r", "u", "d", "ê", "n", "c", "i", "a">>,
      <<"p", "r", "e", "c", "e", "d", "e", "n", "t", "e">>, <<"s", "ú", "m", "u", "l", "a">>, <<"c", "o", "n", "s", "t", "i", "t", "u", "i", "ç", "ã", "o">>, <<"p", "r", "o", "c", "e", "s", "s", "u", "a", "l">>, <<"c", "i", "v", "i", "l">>,
      <<"p", "e", "n", "a", "l">>, <<"t", "r", "a", "b", "a", "l", "h", "i", "s", "t", "a">>, <<"a", "d", "m", "i", "n", "i", "s", "t", "r", "a", "t", "i", "v", "o">>, <<"t", "r", "i", "b", "u", "t", "á", "r", "i", "o">>>>

KwJanela == 10000
LimitePalavrasChave == 15

(* 1. the named entities of doc = self.nlp(janela) *)
EntidadesChave(janela, d) ==
    { Lower(SubSeq(janela, e.ini, e.fim)) :
        e \in {e \in d.ents : /\ e.fim <= Len(janela)
                              /\ e.label \in {"PER", "ORG", "LOC"}
                              /\ e.fim - e.ini + 1 > 3} }

(* 3. the legal terms the text has *)
TermosPresentes(texto_lower) ==
    { termos_juridicos[k] :
        k \in {k \in 1..Len(termos_juridicos) : Contains(texto_lower, termos_juridicos[k])} }

(* 4. the areas with a keyword in the text *)
AreasPresentes(self, texto_lower) ==
    { Lower(self.tipos_processuais[a].area) :
        a \in {a \in 1..Len(self.tipos_processuais) :
                 Pontuacao(self.tipos_processuais[a].keywords, texto_lower) >= 1} }

(* extrair_palavras_chave that returns the whole sorted list *)
extrair_palavras_chave_sem_teto(self, t, d) ==
    Com(Take(t, KwJanela), LAMBDA janela :
    Com(PalavrasImportantes(Substantivos(janela, d)), LAMBDA palavras_importantes :
    Com(Lower(t), LAMBDA texto_lower :
        Sorted(EntidadesChave(janela, d)
                   \cup {palavras_importantes[k] : k \in 1..Len(palavras_importantes)}
                   \cup TermosPresentes(texto_lower)
                   \cup AreasPresentes(self, texto_lower)))))

extrair_palavras_chave(self, t, d) ==
    Com(Take(t, KwJanela), LAMBDA janela :
    Com(PalavrasImportantes(Substantivos(janela, d)), LAMBDA palavras_importantes :
    Com(Lower(t), LAMBDA texto_lower :
        Take(Sorted(EntidadesChave(janela, d)
                        \cup {palavras_importantes[k] : k \in 1..Len(palavras_importantes)}
                        \cup TermosPresentes(texto_lower)
                        \cup AreasPresentes(self, texto_lower)),
             LimitePalavrasChave))))

-----------------------------------------------------------------------------
(* gerar_resumo_executivo *)

(* extrair_custas_honorarios: its loop runs over the patterns of            *)
(* CUSTAS_SUCUMBENCIA, a category without patterns in the stores above.     *)
extrair_custas_honorarios(self, t) ==
    [custas_processuais |-> None, honorarios_advocaticios |-> None,
     sucumbencia |-> None, gratuidade_justica |-> FALSE]

(* sep.join(lista) *)
RECURSIVE Join(_, _)
Join(lista, sep) ==
    IF Len(lista) = 0 THEN <<>>
    ELSE IF Len(lista) = 1 THEN lista[1]
    ELSE lista[1] \o sep \o Join(Tail(lista), sep)

gerar_resumo_executivo(self, inf, par, dec, t) ==
    LET custas_info == extrair_custas_honorarios(self, t)
        basicas == << <<"P", "R", "O", "C", "E", "S", "S", "O", ":", " ">> \o inf.numero_processo,
                      <<"T", "I", "P", "O", ":", " ">> \o Join(inf.tipo_acao, <<",", " ">>),
                      <<"Ó", "R", "G", "Ã", "O", ":", " ">> \o inf.orgao_julgador,
                      <<"I", "N", "S", "T", "Â", "N", "C", "I", "A", ":", " ">> \o inf.instancia >>
        p_autores == IF par.autores # <<>>
                     THEN << <<"A", "U", "T", "O", "R", "(", "E", "S", ")", ":", " ">> \o Join(Take(par.autores, 2), <<",", " ">>) >> ELSE <<>>
        p_reus == IF par.reus # <<>>
                  THEN << <<"R", "É", "U", "(", "S", ")", ":", " ">> \o Join(Take(par.reus, 2), <<",", " ">>) >> ELSE <<>>
        p_valor == IF inf.valor_causa.tem /\ inf.valor_causa.val # <<>>
                   THEN << <<"V", "A", "L", "O", "R", ":", " ">> \o inf.valor_causa.val >> ELSE <<>>
        p_decisao == IF dec.tem
                     THEN << <<"D", "E", "C", "I", "S", "Ã", "O", ":", " ">> \o dec.val.tipo_decisao \o <<" ", "-", " ">> \o dec.val.resultado >>
                          \o (IF dec.val.data_decisao.tem /\ dec.val.data_decisao.val # <<>>
                              THEN << <<"D", "A", "T", "A", " ", "D", "E", "C", "I", "S", "Ã", "O", ":", " ">> \o dec.val.data_decisao.val >> ELSE <<>>)
                     ELSE <<>>
        p_honorarios == IF custas_info.honorarios_advocaticios.tem
                        THEN << <<"H", "O", "N", "O", "R", "Á", "R", "I", "O", "S", ":", " ">> \o custas_info.honorarios_advocaticios.val >>
                        ELSE <<>>
        resumo == Join(basicas \o p_autores \o p_reus \o p_valor \o p_decisao \o p_honorarios,
                       <<" ", "|", " ">>)
        o_gratuidade == IF custas_info.gratuidade_justica
                        THEN << <<"B", "e", "n", "e", "f", "i", "c", "i", "á", "r", "i", "o", " ", "d", "a", " ", "g", "r", "a", "t", "u", "i", "d", "a", "d", "e", " ", "d", "a", " ", "j", "u", "s", "t", "i", "ç", "a">> >> ELSE <<>>
        o_resultado == IF dec.tem /\ Contains(Lower(dec.val.resultado), <<"p", "r", "o", "c", "e", "d", "e", "n", "t", "e">>)
                       THEN << <<"D", "e", "c", "i", "s", "ã", "o", " ", "f", "a", "v", "o", "r", "á", "v", "e", "l", " ", "a", "o", " ", "a", "u", "t", "o", "r">> >>
                       ELSE IF dec.tem /\ Contains(Lower(dec.val.resultado), <<"i", "m", "p", "r", "o", "c", "e", "d", "e", "n", "t", "e">>)
                       THEN << <<"D", "e", "c", "i", "s", "ã", "o", " ", "f", "a", "v", "o", "r", "á", "v", "e", "l", " ", "a", "o", " ", "r", "é", "u">> >>
                       ELSE <<>>
        observacoes == o_gratuidade \o o_resultado
    IN  IF observacoes # <<>>
        THEN resumo \o <<" ", "|", " ", "O", "B", "S", "E", "R", "V", "A", "Ç", "Õ", "E", "S", ":", " ">> \o Join(observacoes, <<";", " ">>)
        ELSE resumo

-----------------------------------------------------------------------------
(* calcular_confianca_analise.  The score is kept in units of 1/700, in     *)
(* which every term of the sum is an integer: a weight of w hundredths is   *)
(* 7 * w units and (k / 7) * 0.15 is 15 * k units.                           *)

Peso(centesimos) == 7 * centesimos

palavras_juridicas ==
    <<<<"p", "r", "o", "c", "e", "s", "s", "o">>, <<"s", "e", "n", "t", "e", "n", "ç", "a">>, <<"d", "e", "c", "i", "s", "ã", "o">>, <<"a", "u", "t", "o", "r">>, <<"r", "é", "u">>, <<"d", "i", "r", "e", "i", "t", "o">>, <<"l", "e", "i">>>>

(* PalavraInteira without the two \b: palavra in s.lower() *)
PalavraInteira_sem_limites(s, palavra) == \E i \in 1..Len(s) : MatchAtCI(s, i, palavra)

(* re.search(r'\b' + palavra + r'\b', s, re.IGNORECASE) *)
PalavraInteira(s, palavra) ==
    \E i \in 1..Len(s) :
        /\ MatchAtCI(s, i, palavra)
        /\ i = 1 \/ s[i - 1] \notin Palavra
        /\ i + Len(palavra) > Len(s) \/ s[i + Len(palavra)] \notin Palavra

(* the six score components; primeiro is informacoes.tipo_acao[0] *)
ComponentesConfianca(inf, par, t) ==
    LET total_partes == Len(par.autores) + Len(par.reus)
        palavras_encontradas ==
            Cardinality({k \in 1..Len(palavras_juridicas) : PalavraInteira(t, palavras_juridicas[k])})
    IN  << IF inf.numero_processo # <<"N", "ã", "o", " ", "i", "d", "e", "n", "t", "i", "f", "i", "c", "a", "d", "o">> THEN Peso(25) ELSE 0,
           IF total_partes >= 2 THEN Peso(20) ELSE IF total_partes >= 1 THEN Peso(10) ELSE 0,
           IF inf.tipo_acao # <<>> /\ inf.tipo_acao[1] # <<"T", "i", "p", "o", " ", "n", "ã", "o", " ", "i", "d", "e", "n", "t", "i", "f", "i", "c", "a", "d", "o">>
           THEN Peso(15) ELSE 0,
           IF inf.orgao_julgador # <<"Ó", "r", "g", "ã", "o", " ", "n", "ã", "o", " ", "i", "d", "e", "n", "t", "i", "f", "i", "c", "a", "d", "o">> THEN Peso(10) ELSE 0,
           (* min(k / 7, 1.0) * 0.15 *)
           (IF palavras_encontradas <= Len(palavras_juridicas)
            THEN palavras_encontradas ELSE Len(palavras_juridicas)) * 15,
           IF ContainsAny(Lower(t), <<<<"j", "u", "l", "g", "o">>, <<"d", "e", "c", "i", "d", "o">>, <<"s", "e", "n", "t", "e", "n", "ç", "a">>, <<"d", "i", "s", "p", "o", "s", "i", "t", "i", "v", "o">>>>)
           THEN Peso(15) ELSE 0 >>

RECURSIVE Soma(_)
Soma(lista) == IF lista = <<>> THEN 0 ELSE Head(lista) + Soma(Tail(lista))

(* calcular_confianca_analise scoring 0.10 for each party found, and        *)
(* returning the sum as it is                                                *)
calcular_confianca_analise_por_parte(inf, par, t) ==
    LET c == ComponentesConfianca(inf, par, t)
    IN  c[1] + Peso(10) * (Len(par.autores) + Len(par.reus)) + c[3] + c[4] + c[5] + c[6]

(* min(sum(score_components), 1.0) *)
calcular_confianca_analise(inf, par, t) ==
    LET confianca_total == Soma(ComponentesConfianca(inf, par, t))
    IN  IF confianca_total <= Peso(100) THEN confianca_total ELSE Peso(100)
-----------------------------------------------------------------------------
(* The entry points.  The process runs in an environment (ambiente):        *)
(*   spacy       pt_core_news_sm can be loaded                              *)
(*   embeddings  the SentenceTransformer can be loaded                      *)
(*   arquivos    the configuration files that exist beside the script       *)
(*   modulos     the imports of main_juridico succeed                       *)
(*   pdf         what becomes of each path: it does not exist ("inexistente"), *)
(*               it is not a PDF ("nao_pdf"), it is too large ("grande"),   *)
(*               no method extracts it ("ilegivel"), the extractor raises   *)
(*               ("excecao"), or its text is extracted ("legivel")          *)
(*   relatorio   what becomes of the PDF report: "gerado", "sem_sucesso",   *)
(*               "excecao"                                                  *)
(*   falha       a fault: the step of analisar_documento_juridico (etapa)   *)
(*               that raises when the text analysed is falha.texto, and     *)
(*               str(e) of what it raises (mensagem); etapa "nenhuma": none *)
(* A dictionary is a record; a message, a file name and a time stamp are    *)
(* strings of the model, the time stamp always "agora".                     *)

Arquivos == {"patterns_juridicos.yaml", "tipos_processuais.yaml"}

SemFalha == [etapa |-> "nenhuma", mensagem |-> "", texto |-> <<>>]

(* an environment in which __init__ leaves the analyser self, nothing fails *)
(* and no document is at hand                                               *)
AmbienteDe(self) ==
    [spacy |-> TRUE, embeddings |-> self.modelo_embeddings,
     arquivos |-> IF self.padroes = PadroesYaml THEN Arquivos ELSE {},
     modulos |-> TRUE, pdf |-> <<>>, relatorio |-> "gerado", falha |-> SemFalha]

(* dict.get(chave, padrao) *)
Get(dict, chave, padrao) == IF chave \in DOMAIN dict THEN dict[chave] ELSE padrao

(* _carregar_padroes that replaces each missing file on its own *)
_carregar_padroes_por_arquivo(arquivos) ==
    [padroes |-> IF "patterns_juridicos.yaml" \in arquivos THEN PadroesYaml
                 ELSE _padroes_basicos,
     tipos_processuais |-> IF "tipos_processuais.yaml" \in arquivos THEN TiposYaml
                           ELSE _tipos_basicos]

(* _carregar_padroes: the two files are opened in turn inside one try, and  *)
(* FileNotFoundError from either open assigns both attributes again         *)
_carregar_padroes(arquivos) ==
    IF Arquivos \subseteq arquivos
    THEN [padroes |-> PadroesYaml, tipos_processuais |-> TiposYaml]
    ELSE [padroes |-> _padroes_basicos, tipos_processuais |-> _tipos_basicos]

(* AnalisadorJuridico() that goes on without the language model *)
AnalisadorJuridico_sem_modelo(amb) ==
    Some([padroes |-> _carregar_padroes(amb.arquivos).padroes,
          tipos_processuais |-> _carregar_padroes(amb.arquivos).tipos_processuais,
          modelo_embeddings |-> amb.embeddings])

(* AnalisadorJuridico(): the analyser __init__ leaves, None when            *)
(* _carregar_modelos raises OSError, which __init__ does not catch          *)
AnalisadorJuridico(amb) ==
    IF ~amb.spacy THEN None
    ELSE Some([padroes |-> _carregar_padroes(amb.arquivos).padroes,
               tipos_processuais |-> _carregar_padroes(amb.arquivos).tipos_processuais,
               modelo_embeddings |-> amb.embeddings])

(* the AnaliseProcesso values analisar_processo_completo may return *)
AnaliseProcesso(self, t, d, s) ==
    Com(analisar_decisao(self, t, s), LAMBDA dec :
    Com(extrair_palavras_chave(self, t, d), LAMBDA chaves :
        { [informacoes_processuais |-> inf,
           partes |-> par,
           decisao |-> dec,
           resumo_executivo |-> gerar_resumo_executivo(self, inf, par, dec, t),
           palavras_chave |-> chaves,
           confianca_analise |-> calcular_confianca_analise(inf, par, t)] :
            inf \in extrair_informacoes_processuais(self, t),
            par \in extrair_partes_processo(self, t, d) }))

(* analisar_semanticamente that does not look whether the model is there *)
analisar_semanticamente_sem_guarda(self, t, s) ==
    IF s.erro THEN [erro |-> "encode"]
    ELSE [secoes_classificadas |-> "classificacoes", topicos_principais |-> "topicos",
          complexidade_documento |-> "complexidade"]

(* analisar_semanticamente: without the model the error mapping; with it    *)
(* the classification, or the error mapping of its except clause when the   *)
(* embedding model fails (s.erro)                                           *)
analisar_semanticamente(self, t, s) ==
    IF ~self.modelo_embeddings THEN [erro |-> "Modelo de embeddings não disponível"]
    ELSE IF s.erro THEN [erro |-> "encode"]
    ELSE [secoes_classificadas |-> "classificacoes", topicos_principais |-> "topicos",
          complexidade_documento |-> "complexidade"]

(* extrair_informacoes_adicionais; of its five entries the three that are   *)
(* lists of regular-expression matches over the text (prazos_recursos,      *)
(* legislacao_citada, jurisprudencia_citada) are not carried                *)
extrair_informacoes_adicionais(self, t, s) ==
    [custas_honorarios |-> extrair_custas_honorarios(self, t),
     analise_semantica |-> analisar_semanticamente(self, t, s)]

(* the tier of a confidence, a threshold being part of the tier above it *)
NivelConfianca_inclusive(c) ==
    IF c >= Peso(70) THEN "Alto" ELSE IF c >= Peso(40) THEN "Médio" ELSE "Baixo"

(* "Alto" if confianca > 0.7 else "Médio" if confianca > 0.4 else "Baixo" *)
NivelConfianca(c) ==
    IF c > Peso(70) THEN "Alto" ELSE IF c > Peso(40) THEN "Médio" ELSE "Baixo"

(* gerar_analise_json; metadados_extracao is <<>> for None and for {} *)
gerar_analise_json(analise, metadados_extracao) ==
    [timestamp_analise |-> "agora",
     analise_completa |->
        [numero_processo |-> analise.informacoes_processuais.numero_processo,
         tipo_acao |-> analise.informacoes_processuais.tipo_acao,
         orgao_julgador |-> analise.informacoes_processuais.orgao_julgador,
         instancia |-> analise.informacoes_processuais.instancia,
         data_distribuicao |-> analise.informacoes_processuais.data_distribuicao,
         valor_causa |-> analise.informacoes_processuais.valor_causa,
         partes |-> [autores |-> analise.partes.autores,
                     reus |-> analise.partes.reus,
                     terceiros |-> analise.partes.terceiros,
                     advogados |-> analise.partes.advogados],
         decisao |-> analise.decisao,
         resumo_executivo |-> analise.resumo_executivo,
         palavras_chave |-> analise.palavras_chave,
         confianca_analise |-> analise.confianca_analise],
     metadados_processamento |-> metadados_extracao,
     estatisticas |->
        [total_partes_identificadas |->
             Len(analise.partes.autores) + Len(analise.partes.reus)
                 + Len(analise.partes.terceiros),
         tem_decisao |-> analise.decisao.tem,
         nivel_confianca |-> NivelConfianca(analise.confianca_analise)]]

(* the dictionary of the except clause of analisar_documento_juridico *)
ResultadoDeErro(mensagem) ==
    [erro |-> mensagem, timestamp_erro |-> "agora", sucesso |-> FALSE]

(* the dictionary of its try block; relatorio_texto is the report of        *)
(* gerar_relatorio_detalhado, of which the model keeps what it is made from *)
ResultadoDaAnalise(self, analise, t, metadados_extracao, s) ==
    [k \in DOMAIN gerar_analise_json(analise, metadados_extracao)
               \cup {"informacoes_adicionais", "relatorio_texto", "sentenca_integra"} |->
        IF k = "informacoes_adicionais" THEN extrair_informacoes_adicionais(self, t, s)
        ELSE IF k = "relatorio_texto"
        THEN <<analise.resumo_executivo, analise.palavras_chave>>
        ELSE IF k = "sentenca_integra" THEN t
        ELSE gerar_analise_json(analise, metadados_extracao)[k]]

(* the step of analisar_documento_juridico that raises for this text, and   *)
(* "nenhuma" when none does; the constructor raises without the language    *)
(* model                                                                     *)
EtapaQueFalha(t, amb) ==
    IF ~AnalisadorJuridico(amb).tem THEN "AnalisadorJuridico"
    ELSE IF amb.falha.texto = t THEN amb.falha.etapa
    ELSE "nenhuma"

(* str(e) of the exception that step raises *)
MensagemDaFalha(t, amb) ==
    IF EtapaQueFalha(t, amb) = "AnalisadorJuridico" THEN "E050" ELSE amb.falha.mensagem

(* a call that raises is the record [excecao |-> str(e)] in the place of    *)
(* what it would have returned                                               *)
Levantou(resultado) == "excecao" \in DOMAIN resultado

(* analisar_documento_juridico whose except clause raises again *)
analisar_documento_juridico_que_propaga(texto_documento, metadados_extracao, amb, d, s) ==
    IF EtapaQueFalha(texto_documento, amb) # "nenhuma"
    THEN {[excecao |-> MensagemDaFalha(texto_documento, amb)]}
    ELSE { ResultadoDaAnalise(AnalisadorJuridico(amb).val, analise, texto_documento,
                              metadados_extracao, s) :
             analise \in AnaliseProcesso(AnalisadorJuridico(amb).val, texto_documento, d, s) }

(* the dictionaries analisar_documento_juridico may return: the constructor *)
(* and every step are inside its try, and except Exception returns           *)
analisar_documento_juridico(texto_documento, metadados_extracao, amb, d, s) ==
    IF EtapaQueFalha(texto_documento, amb) # "nenhuma"
    THEN {ResultadoDeErro(MensagemDaFalha(texto_documento, amb))}
    ELSE { ResultadoDaAnalise(AnalisadorJuridico(amb).val, analise, texto_documento,
                              metadados_extracao, s) :
             analise \in AnaliseProcesso(AnalisadorJuridico(amb).val, texto_documento, d, s) }

(* extrair_texto_pdf(caminho), metodo 'hibrido': what                        *)
(* ExtratorTextoJuridico.processar_documento_completo returns, or the raise *)
(* of what is outside its try (the constructor, Path(caminho).exists())     *)
extrair_texto_pdf(caminho, amb) ==
    IF amb.pdf[caminho].destino = "levanta" THEN [excecao |-> "TypeError"]
    ELSE IF amb.pdf[caminho].destino = "inexistente"
    THEN [sucesso |-> FALSE, erro |-> "Arquivo não encontrado"]
    ELSE IF amb.pdf[caminho].destino = "excecao"
    THEN [sucesso |-> FALSE, erro |-> "Erro geral"]
    ELSE IF amb.pdf[caminho].destino = "ilegivel"
    THEN [sucesso |-> FALSE, erro |-> "Falha em todos os métodos de extração",
          detalhes |-> "detalhes"]
    ELSE [sucesso |-> TRUE, metadados_arquivo |-> [nome_arquivo |-> caminho],
          metadados_extracao |-> <<>>, texto_completo |-> amb.pdf[caminho].texto,
          paginas |-> "paginas", estrutura_documento |-> "estrutura",
          estatisticas |-> "estatisticas", timestamp_processamento |-> "agora"]

(* the entries one pass of the loop of processar_multiplos_documentos may   *)
(* append                                                                    *)
EntradaDoLote(caminho, amb, d, s) ==
    Com(extrair_texto_pdf(caminho, amb), LAMBDA resultado_extracao :
        IF Levantou(resultado_extracao)
        THEN {[arquivo |-> caminho, erro |-> resultado_extracao.excecao, sucesso |-> FALSE]}
        ELSE IF ~resultado_extracao.sucesso
        THEN {[arquivo |-> caminho, erro |-> resultado_extracao.erro, sucesso |-> FALSE]}
        ELSE { IF Levantou(resultado_analise)
               THEN [arquivo |-> caminho, erro |-> resultado_analise.excecao, sucesso |-> FALSE]
               ELSE ("arquivo_origem" :> caminho) @@ resultado_analise :
                 resultado_analise \in
                     analisar_documento_juridico(
                         resultado_extracao.texto_completo,
                         Get(resultado_extracao, "metadados_arquivo", <<>>), amb, d, s) })

(* the lists the loop may build from path k on *)
RECURSIVE Lote(_, _, _, _, _)
Lote(lista, k, amb, d, s) ==
    IF k > Len(lista) THEN {<<>>}
    ELSE { <<entrada>> \o resto : entrada \in EntradaDoLote(lista[k], amb, d, s),
                                  resto \in Lote(lista, k + 1, amb, d, s) }

(* processar_multiplos_documentos without the try inside its loop *)
processar_multiplos_documentos_sem_try(lista, amb, d, s) ==
    IF ~AnalisadorJuridico(amb).tem THEN {[excecao |-> "E050"]}
    ELSE IF \E k \in 1..Len(lista) : Levantou(extrair_texto_pdf(lista[k], amb))
    THEN {[excecao |-> "TypeError"]}
    ELSE {[resultados |-> resultados] : resultados \in Lote(lista, 1, amb, d, s)}

(* processar_multiplos_documentos: the lists it may return (resultados), or *)
(* the raise of the constructor, which is called before the loop and        *)
(* outside any try                                                           *)
processar_multiplos_documentos(lista, amb, d, s) ==
    IF ~AnalisadorJuridico(amb).tem THEN {[excecao |-> "E050"]}
    ELSE {[resultados |-> resultados] : resultados \in Lote(lista, 1, amb, d, s)}

-----------------------------------------------------------------------------
(* main_juridico.py *)

(* ProcessadorDocumentoJuridico.validar_arquivo: the file is missing, or it *)
(* is there and may be no PDF or too large (pdf[caminho].valido)            *)
validar_arquivo(caminho_arquivo, amb) ==
    IF amb.pdf[caminho_arquivo].destino = "inexistente"
    THEN [valido |-> FALSE, erro |-> "Arquivo não encontrado"]
    ELSE IF amb.pdf[caminho_arquivo].valido = "nao_pdf"
    THEN [valido |-> FALSE, erro |-> "Arquivo deve ser PDF"]
    ELSE IF amb.pdf[caminho_arquivo].valido = "grande"
    THEN [valido |-> FALSE, erro |-> "Arquivo muito grande"]
    ELSE [valido |-> TRUE, caminho |-> caminho_arquivo, nome_arquivo |-> caminho_arquivo,
          tamanho_mb |-> "tamanho"]

(* ProcessadorDocumentoJuridico.extrair_texto_documento *)
extrair_texto_documento(caminho_arquivo, amb) ==
    Com(extrair_texto_pdf(caminho_arquivo, amb), LAMBDA resultado_extracao :
        IF Levantou(resultado_extracao)
        THEN [sucesso |-> FALSE, erro |-> "Erro na extração de texto", stack_trace |-> "traceback"]
        ELSE resultado_extracao)

(* ProcessadorDocumentoJuridico.analisar_documento: what it may return *)
analisar_documento(texto_documento, metadados_extracao, amb, d, s) ==
    { IF Levantou(resultado_analise)
      THEN [erro |-> "Erro na análise jurídica", stack_trace |-> "traceback"]
      ELSE resultado_analise :
        resultado_analise \in
            analisar_documento_juridico(texto_documento, metadados_extracao, amb, d, s) }

(* ProcessadorDocumentoJuridico.gerar_relatorio_final, gerar_relatorio_pdf  *)
(* returning success, returning a failure or raising (amb.relatorio)        *)
gerar_relatorio_final(resultado_analise, nome_arquivo_original, amb) ==
    IF amb.relatorio = "gerado"
    THEN [sucesso |-> TRUE, relatorio_gerado |-> TRUE, caminho_relatorio |-> "/tmp/relatorio.pdf",
          nome_relatorio |-> "relatorio.pdf", tamanho_relatorio_kb |-> "tamanho"]
    ELSE IF amb.relatorio = "sem_sucesso"
    THEN [sucesso |-> FALSE, erro |-> "Erro na geração"]
    ELSE [sucesso |-> FALSE, erro |-> "Erro na geração do relatório", stack_trace |-> "traceback"]

_criar_resposta_erro(mensagem_erro, fase) ==
    [sucesso |-> FALSE, erro |-> mensagem_erro, fase_erro |-> fase, timestamp_erro |-> "agora",
     metricas_processamento |-> "metricas",
     logs_sistema |-> [nivel_log |-> "ERROR", modulo |-> "ProcessadorDocumentoJuridico"]]

_criar_resposta_sucesso(resultado_analise, resultado_relatorio, validacao_arquivo) ==
    LET analise_completa == Get(resultado_analise, "analise_completa", <<>>)
        estatisticas == Get(resultado_analise, "estatisticas", <<>>)
    IN  [sucesso |-> TRUE,
         timestamp_conclusao |-> "agora",
         arquivo_processado |-> [nome_original |-> validacao_arquivo.nome_arquivo,
                                 tamanho_mb |-> validacao_arquivo.tamanho_mb,
                                 caminho |-> validacao_arquivo.caminho],
         resumo_analise |->
             [numero_processo |-> Get(analise_completa, "numero_processo", <<"N", "ã", "o", " ", "i", "d", "e", "n", "t", "i", "f", "i", "c", "a", "d", "o">>),
              tipo_acao |-> Get(analise_completa, "tipo_acao", <<>>),
              orgao_julgador |-> Get(analise_completa, "orgao_julgador", <<"N", "ã", "o", " ", "i", "d", "e", "n", "t", "i", "f", "i", "c", "a", "d", "o">>),
              total_partes |-> Get(estatisticas, "total_partes_identificadas", 0),
              tem_decisao |-> Get(estatisticas, "tem_decisao", FALSE),
              confianca_analise |-> Get(analise_completa, "confianca_analise", 0),
              nivel_confianca |-> Get(estatisticas, "nivel_confianca", "Baixo")],
         resultado_completo |-> resultado_analise,
         relatorio_pdf |-> [gerado |-> Get(resultado_relatorio, "relatorio_gerado", FALSE),
                            caminho |-> Get(resultado_relatorio, "caminho_relatorio", None),
                            nome_arquivo |-> Get(resultado_relatorio, "nome_relatorio", None),
                            tamanho_kb |-> Get(resultado_relatorio, "tamanho_relatorio_kb", 0)],
         metricas_processamento |-> "metricas",
         logs_sistema |-> [nivel_log |-> "INFO", modulo |-> "ProcessadorDocumentoJuridico",
                           mensagem |-> "Processamento concluído com sucesso"]]

(* processar_documento_completo: the responses it may return.  A dictionary *)
(* entry that is the empty string is falsy, as None is.                     *)
processar_documento_completo(caminho_arquivo, amb, d, s) ==
    Com(validar_arquivo(caminho_arquivo, amb), LAMBDA validacao :
        IF ~validacao.valido THEN {_criar_resposta_erro(validacao.erro, "validacao")}
        ELSE Com(extrair_texto_documento(caminho_arquivo, amb), LAMBDA resultado_extracao :
            IF ~resultado_extracao.sucesso
            THEN {_criar_resposta_erro(Get(resultado_extracao, "erro", "Erro na extração"),
                                       "extracao")}
            ELSE { IF Get(resultado_analise, "erro", "") # ""
                   THEN _criar_resposta_erro(resultado_analise.erro, "analise")
                   ELSE _criar_resposta_sucesso(
                            resultado_analise,
                            gerar_relatorio_final(resultado_analise, validacao.nome_arquivo, amb),
                            validacao) :
                     resultado_analise \in
                         analisar_documento(resultado_extracao.texto_completo,
                                            Get(resultado_extracao, "metadados_arquivo", <<>>),
                                            amb, d, s) }))

(* main: what it prints on the standard output as JSON (stdout) and its     *)
(* exit status                                                               *)
main(sys_argv, amb, d, s) ==
    IF Len(sys_argv) < 2
    THEN {[stdout |-> Some([sucesso |-> FALSE, erro |-> "Uso", exemplo |-> "exemplo",
                            timestamp_erro |-> "agora"]),
           status |-> 1]}
    ELSE { [stdout |-> Some(resultado), status |-> IF resultado.sucesso THEN 0 ELSE 1] :
             resultado \in processar_documento_completo(sys_argv[2], amb, d, s) }

(* python main_juridico.py ...: the imports at the top of the module, whose *)
(* except clause logs and exits, and then main()                            *)
main_juridico(sys_argv, amb, d, s) ==
    IF ~amb.modulos THEN {[stdout |-> None, status |-> 1]}
    ELSE main(sys_argv, amb, d, s)

-----------------------------------------------------------------------------
(* extrair_texto_juridico.py: ExtratorTextoJuridico *)

palavras_juridicas_qualidade ==
    << <<"p", "r", "o", "c", "e", "s", "s", "o">>, <<"s", "e", "n", "t", "e", "n", "ç", "a">>, <<"a", "u", "t", "o", "r">>, <<"r", "é", "u">>, <<"j", "u", "i", "z">>, <<"t", "r", "i", "b", "u", "n", "a", "l">>,
       <<"d", "i", "r", "e", "i", "t", "o">>, <<"l", "e", "i">>, <<"a", "r", "t", "i", "g", "o">>, <<"c", "ó", "d", "i", "g", "o">>, <<"d", "e", "c", "i", "s", "ã", "o">>, <<"r", "e", "c", "u", "r", "s", "o">> >>

MinimoQualidade == 50
LimiarPyMuPDF == 70
LimiarPdfplumber == 60

(* _avaliar_qualidade_texto: the score as the fraction num / den.  With n   *)
(* characters, a of them letters, d digits, e neither \w nor \s, and j of   *)
(* the twelve legal words present, the score                                 *)
(*   (a/n) * 0.4 + (j/12) * 0.3 + min(2d/n, 0.2) * 0.2 + (1 - min(3e/n, 1)) * 0.1 *)
(* is 600 * n times smaller than the integer computed here.                  *)
_avaliar_qualidade_texto(t) ==
    IF Len(t) < MinimoQualidade THEN [num |-> 0, den |-> 1]
    ELSE LET total_chars == Len(t)
             chars_alfabeticos ==
                 Cardinality({i \in 1..Len(t) :
                                t[i] \in LetraMin \cup LetraMai \cup AcentoMin \cup AcentoMai})
             chars_numericos == Cardinality({i \in 1..Len(t) : t[i] \in Digito})
             chars_especiais == Cardinality({i \in 1..Len(t) : t[i] \notin Palavra \cup Espaco})
             palavras_encontradas ==
                 Cardinality({k \in 1..Len(palavras_juridicas_qualidade) :
                                PalavraInteira(t, palavras_juridicas_qualidade[k])})
             score == 240 * chars_alfabeticos
                          + 15 * palavras_encontradas * total_chars
                          + Min({240 * chars_numericos, 24 * total_chars})
                          + 60 * (total_chars - Min({3 * chars_especiais, total_chars}))
         IN  [num |-> Min({score, 600 * total_chars}), den |-> 600 * total_chars]

(* qualidade > centesimos / 100 *)
Acima(qualidade, centesimos) == qualidade.num * 100 > centesimos * qualidade.den

(* the result of a method is the one extrair_texto_hibrido returns: it      *)
(* succeeded and, for the first two methods, its text is above the          *)
(* threshold of the method                                                   *)
Aproveitado(metodo, resultado) ==
    /\ resultado.sucesso
    /\ CASE metodo = "pymupdf" ->
              Acima(_avaliar_qualidade_texto(resultado.texto_completo), LimiarPyMuPDF)
         [] metodo = "pdfplumber" ->
              Acima(_avaliar_qualidade_texto(resultado.texto_completo), LimiarPdfplumber)
         [] OTHER -> TRUE

(* the dictionary of the last return statement of extrair_texto_hibrido *)
FalhaEmTodos(resultado_pymupdf, resultado_pdfplumber, resultado_ocr) ==
    [sucesso |-> FALSE, erro |-> "Falha em todos os métodos de extração",
     detalhes |-> [pymupdf |-> Get(resultado_pymupdf, "erro", None),
                   pdfplumber |-> Get(resultado_pdfplumber, "erro", None),
                   ocr |-> Get(resultado_ocr, "erro", None)]]

-----------------------------------------------------------------------------
(* The documents analysed *)

MaxNomes == 6         \* parties of one role named in a document
MaxAdvogados == 11    \* attorneys named in a document
MaxTerceiros == 4     \* third parties named in a document
MaxPartes == 2        \* plaintiffs, and defendants, of a PartesProcesso given to the score

(* case numbers: twenty digits and the five places of a separator *)
TextosNumero ==
    LET DigitosBase == {<<"1", "2", "3", "4", "5", "6", "7", "1", "2", "2", "0", "2", "0", "1", "0", "1", "0", "0", "0", "1">>, <<"0", "0", "0", "0", "0", "0", "1", "9", "9", "2", "0", "2", "3", "8", "2", "6", "0", "1", "0", "0">>}
        Separadores ==
            [1..5 -> {<<>>, <<".">>}] \cup {<<<<"-">>, <<".">>, <<".">>, <<".">>, <<".">>>>,
                                            <<<<"-">>, <<"-">>, <<"-">>, <<"-">>, <<"-">>>>,
                                            <<<<"/">>, <<".">>, <<".">>, <<".">>, <<".">>>>,
                                            <<<<"-">>, <<".">>, <<".", ".">>, <<".">>, <<".">>>>}
        Numero(d, m) ==
            SubSeq(d, 1, 7) \o m[1] \o SubSeq(d, 8, 9) \o m[2] \o SubSeq(d, 10, 13) \o m[3]
                \o <<d[14]>> \o m[4] \o SubSeq(d, 15, 16) \o m[5] \o SubSeq(d, 17, 20)
    IN  { <<"P", "r", "o", "c", "e", "s", "s", "o", " ", "n", "º", " ">> \o Numero(d, m) \o <<".">> : d \in DigitosBase, m \in Separadores }
        \cup { <<"A", "u", "t", "o", "s", " ", "1", "2", "3", "4", "5", "6", "7", "-", "1", "2", ".", "2", "0", "2", "0", ".", "1", ".", "0", "1", ".", "0", "0", "0", " ", "e", " ", "1", "2", "3", ".", "4", "5", ".", "2", "0", "2", "0", ".", "1", "2", "3", "4", "5", "6", "-", "7", ".">>,
               <<"A", "u", "t", "o", "s", " ", "9", "1", "2", "3", "4", "5", "6", "7", "-", "1", "2", ".", "2", "0", "2", "0", ".", "1", ".", "0", "1", ".", "0", "0", "0", "1", "2", ",", " ", "f", "o", "l", "h", "a", " ", "2", ".">>,
               <<"A", "u", "t", "o", "s", " ", "1", "2", "3", ".", "4", "5", ".", "2", "0", "2", "0", ".", "1", "2", "3", "4", "5", "6", "-", "7", " ", "e", " ", "1", "2", "3", "4", "5", "6", "7", "-", "1", "2", ".", "2", "0", "2", "0", ".", "1", ".", "0", "1", ".", "0", "0", "0", "1", ".">>,
               <<"A", "u", "t", "o", "s", " ", "s", "e", "m", " ", "n", "ú", "m", "e", "r", "o", ".">> }

(* parties: n names after a role marker *)
Nome(k) == <<<<"A", "B", "C", "D", "E", "F", "G", "H", "I", "J", "K", "L", "M", "N", "O", "P", "Q", "R", "S", "T", "U", "V", "W", "X", "Y", "Z">>[k]>> \o <<"a", "r", "i", "a", " ", "S", "o", "u", "z", "a">>
RECURSIVE Rol(_, _, _)
Rol(marcador, de, ate) ==
    IF de > ate THEN <<>>
    ELSE marcador \o <<":", " ">> \o Nome(de) \o <<".", " ">> \o Rol(marcador, de + 1, ate)

TextosPartes ==
    { Rol(<<"A", "u", "t", "o", "r">>, 1, MaxNomes),
      Rol(<<"R", "é", "u">>, 1, MaxNomes),
      Rol(<<"R", "e", "q", "u", "e", "r", "e", "n", "t", "e">>, 1, MaxNomes),
      Rol(<<"R", "e", "q", "u", "e", "r", "e", "n", "t", "e">>, 1, 2) \o Rol(<<"R", "e", "q", "u", "e", "r", "i", "d", "o">>, 3, 4),
      Rol(<<"A", "u", "t", "o", "r">>, 1, MaxNomes) \o Rol(<<"R", "é", "u">>, 1, MaxNomes)
          \o Rol(<<"T", "e", "r", "c", "e", "i", "r", "o">>, 1, MaxTerceiros) \o Rol(<<"A", "d", "v", "o", "g", "a", "d", "o">>, 1, MaxAdvogados),
      Rol(<<"T", "e", "r", "c", "e", "i", "r", "o">>, 1, MaxTerceiros),
      Rol(<<"A", "d", "v", "o", "g", "a", "d", "o">>, 1, MaxAdvogados),
      Rol(<<"A", "u", "t", "o", "r">>, 1, 1) \o Rol(<<"R", "é", "u">>, 2, 2) \o Rol(<<"A", "s", "s", "i", "s", "t", "e", "n", "t", "e">>, 3, 3)
          \o Rol(<<"A", "d", "v", "o", "g", "a", "d", "a">>, 4, 4),
      <<"A", "U", "T", "O", "R", ":", " ", "M", "A", "R", "I", "A", " ", "S", "O", "U", "Z", "A", ".", " ", "A", "u", "t", "o", "r", ":", " ", "M", "a", "r", "i", "a", " ", "S", "o", "u", "z", "a", ".", " ", "A", "u", "t", "o", "r", ":", "M", "a", "r", "i", "a", " ", "S", "o", "u", "z", "a", " ", "R", "é", "u", ":", " ", "A", "n", "a", " ", "L", "i", "m", "a", ".", " ", "r", "é", "u", ":", " ", "A", "u", "t", "o", "r", " ", "R", "e", "i", "s", ".">>,
      <<"A", "U", "T", "O", "R", ":", " ", "M", "A", "R", "I", "A", " ", "S", "O", "U", "Z", "A", ".", " ", "A", "u", "t", "o", "r", ":", " ", "M", "a", "r", "i", "a", " ", "S", "o", "u", "z", "a", ".", " ", "A", "u", "t", "o", "r", ":", " ", "M", "a", "r", "i", "a", " ", "S", "o", "u", "z", "a", ".", " ", "R", "é", "u", ":", " ", "A", "n", "a", " ", "L", "i", "m", "a", ".", " ", "R", "é", "u", ":", " ", "A", "n", "a", " ", "L", "i", "m", "a", ".">>,
      <<"A", "u", "t", "o", "r", ":", " ", "J", "o", "ã", "o", " ", "d", "a", " ", "S", "i", "l", "v", "a", ".", " ", "R", "é", "u", ":", " ", "Z", "é", ".", " ", "O", " ", "a", "u", "t", "o", "r", " ", "P", "e", "d", "r", "o", " ", "G", "o", "n", "ç", "a", "l", "v", "e", "s", " ", "p", "e", "d", "e", ".", " ", "A", "d", "v", "o", "g", "a", "d", "o", ":", " ", "R", "u", "i", " ", "S", "á", ".">> }

(* decisions: what precedes the operative clause, the clause, what follows *)
TextosDecisao ==
    LET Aberturas ==
            { <<>>, <<"S", "e", "n", "t", "e", "n", "ç", "a", ".", " ">>, <<"A", "C", "Ó", "R", "D", "Ã", "O", ".", " ">>, <<"S", "e", "n", "t", "e", "n", "ç", "a", " ", "e", " ", "a", "c", "ó", "r", "d", "ã", "o", ".", " ">>, <<"D", "e", "s", "p", "a", "c", "h", "o", ".", " ">>,
              <<"D", "e", "c", "i", "s", "ã", "o", " ", "i", "n", "t", "e", "r", "l", "o", "c", "u", "t", "ó", "r", "i", "a", ".", " ">> }
        Clausulas ==
            { <<"J", "u", "l", "g", "o", " ", "p", "r", "o", "c", "e", "d", "e", "n", "t", "e", " ", "o", " ", "p", "e", "d", "i", "d", "o", ".">>,
              <<"J", "u", "l", "g", "o", " ", "i", "m", "p", "r", "o", "c", "e", "d", "e", "n", "t", "e", " ", "o", " ", "p", "e", "d", "i", "d", "o", ".">>,
              <<"J", "U", "L", "G", "O", " ", "P", "A", "R", "C", "I", "A", "L", "M", "E", "N", "T", "E", " ", "P", "R", "O", "C", "E", "D", "E", "N", "T", "E", " ", "o", " ", "p", "e", "d", "i", "d", "o", ".">>,
              <<"J", "u", "l", "g", "o", " ", "p", "a", "r", "c", "i", "a", "l", "m", "e", "n", "t", "e", " ", "p", "r", "o", "c", "e", "d", "e", "n", "t", "e", " ", "u", "m", " ", "p", "e", "d", "i", "d", "o", " ", "e", " ", "i", "m", "p", "r", "o", "c", "e", "d", "e", "n", "t", "e", " ", "o", " ", "o", "u", "t", "r", "o", ".">>,
              <<"D", "e", "c", "i", "d", "o", ":", " ", "d", "e", "f", "i", "r", "o", " ", "a", " ", "l", "i", "m", "i", "n", "a", "r", ".">>,
              <<"D", "e", "c", "i", "d", "o", ":", " ", "i", "n", "d", "e", "f", "i", "r", "o", " ", "a", " ", "l", "i", "m", "i", "n", "a", "r", ".">>,
              <<"D", "e", "t", "e", "r", "m", "i", "n", "o", "\n", "p", "r", "o", "c", "e", "s", "s", "o", " ", "e", "x", "t", "i", "n", "t", "o", ".">>,
              <<"A", "n", "t", "e", " ", "o", " ", "e", "x", "p", "o", "s", "t", "o", ",", " ", "e", " ", "o", " ", "m", "a", "i", "s", " ", "q", "u", "e", " ", "c", "o", "n", "s", "t", "a", ".", " ", "C", "o", "n", "c", "e", "d", "o", " ", "a", " ", "o", "r", "d", "e", "m", ".">>,
              <<"I", "s", "s", "o", " ", " ", "p", "o", "s", "t", "o", ".", " ", "D", "e", "n", "e", "g", "o", " ", "a", " ", "o", "r", "d", "e", "m", ".">>,
              <<"P", "e", "l", "o", " ", "e", "x", "p", "o", "s", "t", "o", ".", " ", "A", "r", "q", "u", "i", "v", "e", "-", "s", "e", ".">>,
              <<"O", " ", "j", "u", "i", "z", " ", "j", "u", "l", "g", "o", "u", " ", "p", "r", "o", "c", "e", "d", "e", "n", "t", "e", " ", "o", " ", "p", "e", "d", "i", "d", "o", ".">>,
              <<"A", "n", "t", "e", " ", "o", " ", "e", "x", "p", "o", "s", "t", "o", ",", " ", "d", "e", "c", "i", "d", "o", ".", " ", "I", "n", "d", "e", "f", "i", "r", "o", " ", "o", " ", "p", "e", "d", "i", "d", "o", " ", "i", "m", "p", "r", "o", "c", "e", "d", "e", "n", "t", "e", ".", " ", "J", "u", "l", "g", "o", " ", "p", "r", "o", "c", "e", "d", "e", "n", "t", "e", " ", "a", " ", "a", "ç", "ã", "o", ".">>,
              <<"D", "i", "s", "p", "o", "s", "i", "t", "i", "v", "o", " ", "s", "e", "m", " ", "p", "o", "n", "t", "o", " ", "f", "i", "n", "a", "l">> }
        Fechos == { <<>>, <<" ", "A", "c", "ó", "r", "d", "ã", "o", " ", "p", "u", "b", "l", "i", "c", "a", "d", "o", ".">>, <<" ", "J", "u", "l", "g", "a", "d", "o", " ", "e", "m", " ", "1", "/", "2", "/", "2", "0", "2", "0", " ", "e", " ", "e", "m", " ", "0", "3", ".", "0", "4", ".", "2", "1", ".">> }
    IN  { a \o c \o f : a \in Aberturas, c \in Clausulas, f \in Fechos }

(* rationales: the lengths around the limits of the two patterns *)
TextosFundamentacao ==
    LET Comprimentos == {99, 100, 299, 300, 301, 500, 520}
        Rep(c, n) == [i \in 1..n |-> c]
        Paragrafo(c, n) == Rep(c, n - 1) \o <<".">>
    IN  { <<"J", "u", "l", "g", "o", " ", "p", "r", "o", "c", "e", "d", "e", "n", "t", "e", " ", "o", " ", "p", "e", "d", "i", "d", "o", ".", " ", "F", "u", "n", "d", "a", "m", "e", "n", "t", "a", "ç", "ã", "o", ":", " ">> \o Rep("a", n) \o <<".">> :
            n \in Comprimentos }
        \cup { <<"J", "u", "l", "g", "o", " ", "p", "r", "o", "c", "e", "d", "e", "n", "t", "e", " ", "o", " ", "p", "e", "d", "i", "d", "o", ".", " ", "F", "U", "N", "D", "A", "M", "E", "N", "T", "A", "C", "A", "O", ":">> \o Rep(" ", k) \o Rep("a", 298)
                 \o <<".">> : k \in 1..4 }
        \cup { <<"J", "u", "l", "g", "o", " ", "p", "r", "o", "c", "e", "d", "e", "n", "t", "e", " ", "o", " ", "p", "e", "d", "i", "d", "o", ".", " ", "C", "o", "n", "s", "i", "d", "e", "r", "a", "n", "d", "o", " ", "o", " ", "c", "a", "s", "o", ".", " ">> \o Rep("a", n) \o <<".">> :
                 n \in Comprimentos }
        \cup { <<"J", "u", "l", "g", "o", " ", "p", "r", "o", "c", "e", "d", "e", "n", "t", "e", " ", "o", " ", "p", "e", "d", "i", "d", "o", ".", "\n">> \o Paragrafo("a", n1) \o <<"\n">>
                 \o Paragrafo("b", n2) \o <<"\n", " ", "\n">> \o Paragrafo("c", 200) :
                 n1 \in {50, 51, 99}, n2 \in {51, 200} }

(* the arguments of calcular_confianca_analise *)
InformacoesDadas ==
    { [numero_processo |-> n, tipo_acao |-> ta, orgao_julgador |-> o,
       instancia |-> <<"I", "n", "s", "t", "â", "n", "c", "i", "a", " ", "n", "ã", "o", " ", "i", "d", "e", "n", "t", "i", "f", "i", "c", "a", "d", "a">>,
       data_distribuicao |-> None, valor_causa |-> None] :
        n \in {<<"N", "ã", "o", " ", "i", "d", "e", "n", "t", "i", "f", "i", "c", "a", "d", "o">>, <<"1", "2", "3", "4", "5", "6", "7", "-", "1", "2", ".", "2", "0", "2", "0", ".", "1", ".", "0", "1", ".", "0", "0", "0", "1">>},
        ta \in {<<<<"T", "i", "p", "o", " ", "n", "ã", "o", " ", "i", "d", "e", "n", "t", "i", "f", "i", "c", "a", "d", "o">>>>, <<<<"A", "ç", "ã", "o", " ", "c", "i", "v", "i", "l">>>>,
                <<<<"P", "r", "o", "c", "e", "s", "s", "o", " ", "c", "i", "v", "e", "l">>, <<"a", "ç", "ã", "o", " ", "c", "i", "v", "i", "l">>>>},
        o \in {<<"Ó", "r", "g", "ã", "o", " ", "n", "ã", "o", " ", "i", "d", "e", "n", "t", "i", "f", "i", "c", "a", "d", "o">>, <<"2", "ª", " ", "V", "a", "r", "a", " ", "C", "í", "v", "e", "l">>} }

PartesDadas ==
    { [autores |-> [k \in 1..a |-> Nome(k)], reus |-> [k \in 1..r |-> Nome(k)],
       terceiros |-> <<>>, advogados |-> {}] :
        a \in 0..MaxPartes, r \in 0..MaxPartes }

(* the first k of the legal words of the text-quality signal, and others *)
TextosConfianca ==
    LET RECURSIVE Primeiras(_)
        Primeiras(k) ==
            IF k = 0 THEN <<>> ELSE Primeiras(k - 1) \o palavras_juridicas[k] \o <<" ">>
    IN
    { Primeiras(k) : k \in 0..Len(palavras_juridicas) }
    \cup { <<"P", "R", "O", "C", "E", "S", "S", "O">>, <<"A", " ", "L", "e", "i", ".">>, <<"R", "é", "u", ":", " ", "B", "a", "n", "c", "o", " ", "A", "l", "f", "a", ".">>, <<"(", "a", "u", "t", "o", "r", ")">>, <<"D", "i", "r", "e", "i", "t", "o">>,
           <<"L", "e", "i", "t", "u", "r", "a", " ", "d", "o", "s", " ", "p", "r", "o", "c", "e", "s", "s", "o", "s", " ", "d", "a", "s", " ", "a", "u", "t", "o", "r", "a", "s", " ", "e", " ", "d", "o", "s", " ", "r", "é", "u", "s", ".">>,
           <<"d", "e", "c", "i", "s", "õ", "e", "s", " ", "e", " ", "d", "i", "r", "e", "i", "t", "o", "s">>, <<"l", "e", "i", "_", "1", " ", "2", "l", "e", "i">>,
           <<"J", "u", "l", "g", "o", " ", "p", "r", "o", "c", "e", "d", "e", "n", "t", "e", ".">>, <<"O", " ", "j", "u", "i", "z", " ", "j", "u", "l", "g", "o", "u", ".">>, <<"D", "e", "c", "i", "d", "o", ".">>, <<"I", "n", "d", "e", "c", "i", "d", "o", "s">>,
           <<"D", "I", "S", "P", "O", "S", "I", "T", "I", "V", "O">>, <<"p", "r", "o", "c", "e", "s", "s", "o", " ", "d", "e", "c", "i", "s", "ã", "o", " ", "a", "u", "t", "o", "r", " ", "r", "é", "u", " ", "d", "i", "r", "e", "i", "t", "o", " ", "l", "e", "i", " ", "j", "u", "l", "g", "o">> }

(* whole documents *)
TextoCenario ==
    <<"P", "r", "o", "c", "e", "s", "s", "o", " ", "n", "º", " ", "1", "2", "3", "4", "5", "6", "7", "-", "1", "2", ".", "2", "0", "2", "0", ".", "1", ".", "0", "1", ".", "0", "0", "0", "1", ".", " ", "A", "u", "t", "o", "r", ":", " ", "J", "o", "ã", "o", " ", "d", "a", " ", "S", "i", "l", "v", "a", ".", " ", "R", "é", "u", ":", " ", "E", "m", "p", "r", "e", "s", "a", " ", "X", "Y", "Z", " ", "L", "t", "d", "a", ".", " ", ".", ".", ".", " ", "j", "u", "l", "g", "o", " ", "p", "r", "o", "c", "e", "d", "e", "n", "t", "e", " ", "o", " ", "p", "e", "d", "i", "d", "o", ".">>

(* the empty text, the scenario, and the texts made of some of three sentences *)
TextosCompletos ==
    LET Frases ==
            << <<"P", "r", "o", "c", "e", "s", "s", "o", " ", "1", "2", "3", "4", "5", "6", "7", "-", "1", "2", ".", "2", "0", "2", "0", ".", "1", ".", "0", "1", ".", "0", "0", "0", "1", ".", " ", "A", "u", "t", "o", "r", ":", " ", "M", "a", "r", "i", "a", " ", "S", "o", "u", "z", "a", ".", " ", "R", "é", "u", ":", " ", "B", "a", "n", "c", "o", " ", "A", "l", "f", "a", ".", " ">>,
               <<"A", "ç", "ã", "o", " ", "c", "i", "v", "i", "l", " ", "n", "a", " ", "2", "ª", " ", "V", "a", "r", "a", " ", "C", "í", "v", "e", "l", ".", " ">>,
               <<"S", "e", "n", "t", "e", "n", "ç", "a", " ", "d", "e", " ", "d", "i", "r", "e", "i", "t", "o", " ", "e", " ", "l", "e", "i", ".", " ", "J", "u", "l", "g", "o", " ", "i", "m", "p", "r", "o", "c", "e", "d", "e", "n", "t", "e", " ", "o", " ", "p", "e", "d", "i", "d", "o", ".">> >>
        Frase(escolha, k) == IF k \in escolha THEN Frases[k] ELSE <<>>
    IN  {<<>>, TextoCenario}
        \cup { Frase(escolha, 1) \o Frase(escolha, 2) \o Frase(escolha, 3) :
                 escolha \in SUBSET (1..3) }

(* what the tagger may answer for a text: no entity, one candidate labelled *)
(* a person, or every candidate labelled alike                               *)
Entidades(s) ==
    Com(Candidatos(s), LAMBDA candidatos :
        {{}} \cup { {[ini |-> c[1], fim |-> c[2], label |-> "PER"]} : c \in candidatos }
             \cup { {[ini |-> c[1], fim |-> c[2], label |-> l] : c \in candidatos} :
                      l \in {"PER", "ORG"} })

(* and it tags as nouns every alphabetic token, or none *)
Analises(s) == { [ents |-> E, substantivos |-> b] : E \in Entidades(s), b \in BOOLEAN }

SemAnalise == [ents |-> {}, substantivos |-> FALSE]
SemResposta == [erro |-> FALSE, topo |-> <<>>]

Lojas == { [padroes |-> _padroes_basicos, tipos |-> _tipos_basicos],
           [padroes |-> PadroesYaml, tipos |-> TiposYaml] }

-----------------------------------------------------------------------------
(* The state machines.  Init* is an AnalisadorJuridico after __init__ (the  *)
(* store loaded from the files or the built-in one, the embedding model     *)
(* loaded or not) together with the arguments of one call; each action is   *)
(* one call, and records in pc what returned.  What a method does not read  *)
(* is not varied in the specification that calls it alone.                  *)

Self == [padroes |-> padroes, tipos_processuais |-> tipos_processuais,
         modelo_embeddings |-> modelo_embeddings]

ComLoja == \E loja \in Lojas : padroes = loja.padroes /\ tipos_processuais = loja.tipos

ComLojaBasica == padroes = _padroes_basicos /\ tipos_processuais = _tipos_basicos

NadaFeito ==
    /\ ambiente = AmbienteDe(Self)
    /\ lista_caminhos = <<>>
    /\ argv = <<>>
    /\ chamadas = <<>>
    /\ pc = "inicio"
    /\ retorno = None
    /\ decisao = None
    /\ palavras_chave = <<>>
    /\ resumo_executivo = <<>>
    /\ confianca = 0

Mantidos ==
    UNCHANGED <<ambiente, lista_caminhos, argv, padroes, tipos_processuais, modelo_embeddings,
                texto, doc, sem, chamadas>>

(* ---- extrair_numero_processo, alone and from extrair_informacoes_processuais *)

InitNumero ==
    /\ ComLoja
    /\ modelo_embeddings = TRUE
    /\ texto \in TextosNumero
    /\ doc = SemAnalise
    /\ sem = SemResposta
    /\ informacoes = None
    /\ partes = None
    /\ NadaFeito

Chamar_extrair_numero_processo ==
    /\ pc = "inicio"
    /\ retorno' = extrair_numero_processo(Self, texto)
    /\ pc' = "extrair_numero_processo"
    /\ Mantidos
    /\ UNCHANGED <<informacoes, partes, decisao, palavras_chave, resumo_executivo, confianca>>

Chamar_extrair_informacoes_processuais ==
    /\ pc = "inicio"
    /\ informacoes' \in extrair_informacoes_processuais(Self, texto)
    /\ pc' = "extrair_informacoes_processuais"
    /\ Mantidos
    /\ UNCHANGED <<retorno, partes, decisao, palavras_chave, resumo_executivo, confianca>>

NextNumero == Chamar_extrair_numero_processo \/ Chamar_extrair_informacoes_processuais

SpecNumero == InitNumero /\ [][NextNumero]_vars

(* ---- extrair_partes_processo *)

InitPartes ==
    /\ ComLoja
    /\ modelo_embeddings = TRUE
    /\ texto \in TextosPartes
    /\ doc \in { [ents |-> E, substantivos |-> FALSE] : E \in Entidades(Take(texto, NerJanela)) }
    /\ sem = SemResposta
    /\ informacoes = None
    /\ partes = None
    /\ NadaFeito

Chamar_extrair_partes_processo ==
    /\ pc = "inicio"
    /\ partes' \in extrair_partes_processo(Self, texto, doc)
    /\ pc' = "extrair_partes_processo"
    /\ Mantidos
    /\ UNCHANGED <<retorno, informacoes, decisao, palavras_chave, resumo_executivo, confianca>>

NextPartes == Chamar_extrair_partes_processo

SpecPartes == InitPartes /\ [][NextPartes]_vars

(* ---- analisar_decisao and its helpers, each also called on its own *)

InitDecisao ==
    /\ ComLojaBasica
    /\ modelo_embeddings \in BOOLEAN
    /\ texto \in TextosDecisao \cup TextosFundamentacao
    /\ doc = SemAnalise
    /\ sem \in RespostasSemanticas(texto)
    /\ informacoes = None
    /\ partes = None
    /\ NadaFeito

Chamar_analisar_decisao ==
    /\ pc = "inicio"
    /\ decisao' = analisar_decisao(Self, texto, sem)
    /\ pc' = "analisar_decisao"
    /\ Mantidos
    /\ UNCHANGED <<retorno, informacoes, partes, palavras_chave, resumo_executivo, confianca>>

Chamar__classificar_tipo_decisao ==
    /\ pc = "inicio"
    /\ retorno' = Some(_classificar_tipo_decisao(texto))
    /\ pc' = "_classificar_tipo_decisao"
    /\ Mantidos
    /\ UNCHANGED <<informacoes, partes, decisao, palavras_chave, resumo_executivo, confianca>>

(* the text is the operative clause given to the method *)
Chamar__determinar_resultado_decisao ==
    /\ pc = "inicio"
    /\ retorno' = Some(_determinar_resultado_decisao(texto))
    /\ pc' = "_determinar_resultado_decisao"
    /\ Mantidos
    /\ UNCHANGED <<informacoes, partes, decisao, palavras_chave, resumo_executivo, confianca>>

Chamar__extrair_fundamentacao_resumida ==
    /\ pc = "inicio"
    /\ retorno' = Some(_extrair_fundamentacao_resumida(Self, texto, sem))
    /\ pc' = "_extrair_fundamentacao_resumida"
    /\ Mantidos
    /\ UNCHANGED <<informacoes, partes, decisao, palavras_chave, resumo_executivo, confianca>>

NextDecisao ==
    \/ Chamar_analisar_decisao
    \/ Chamar__classificar_tipo_decisao
    \/ Chamar__determinar_resultado_decisao
    \/ Chamar__extrair_fundamentacao_resumida

SpecDecisao == InitDecisao /\ [][NextDecisao]_vars

(* ---- calcular_confianca_analise: informacoes and partes are its arguments *)

InitConfianca ==
    /\ ComLojaBasica
    /\ modelo_embeddings = TRUE
    /\ texto \in TextosConfianca
    /\ doc = SemAnalise
    /\ sem = SemResposta
    /\ informacoes \in InformacoesDadas
    /\ partes \in PartesDadas
    /\ NadaFeito

Chamar_calcular_confianca_analise ==
    /\ pc = "inicio"
    /\ confianca' = calcular_confianca_analise(informacoes, partes, texto)
    /\ pc' = "calcular_confianca_analise"
    /\ Mantidos
    /\ UNCHANGED <<retorno, informacoes, partes, decisao, palavras_chave, resumo_executivo>>

NextConfianca == Chamar_calcular_confianca_analise

SpecConfianca == InitConfianca /\ [][NextConfianca]_vars

(* ---- analisar_processo_completo *)

Init ==
    /\ ComLoja
    /\ modelo_embeddings \in BOOLEAN
    /\ texto \in TextosCompletos
    /\ doc \in Analises(texto)
    /\ sem \in RespostasSemanticas(texto)
    /\ informacoes = None
    /\ partes = None
    /\ NadaFeito

analisar_processo_completo ==
    /\ pc = "inicio"
    /\ informacoes' \in extrair_informacoes_processuais(Self, texto)
    /\ partes' \in extrair_partes_processo(Self, texto, doc)
    /\ decisao' = analisar_decisao(Self, texto, sem)
    /\ palavras_chave' = extrair_palavras_chave(Self, texto, doc)
    /\ resumo_executivo' =
           gerar_resumo_executivo(Self, informacoes', partes', decisao', texto)
    /\ confianca' = calcular_confianca_analise(informacoes', partes', texto)
    /\ pc' = "analisar_processo_completo"
    /\ Mantidos
    /\ UNCHANGED retorno

Next == analisar_processo_completo

Spec == Init /\ [][Next]_vars


-----------------------------------------------------------------------------
(* The entry points.  The process has started and no analyser exists yet    *)
(* (pc = "processo"); AnalisadorJuridico() leaves one (pc = "inicio") or    *)
(* raises (pc = "OSError", the exception reaching the caller).              *)

Falhas(t) ==
    {SemFalha} \cup
    { [etapa |-> etapa, mensagem |-> mensagem, texto |-> t] :
        etapa \in {"analisar_processo_completo", "extrair_informacoes_adicionais",
                   "gerar_relatorio_detalhado", "gerar_analise_json"},
        mensagem \in {"", "falha"} }

SemAnalisador ==
    /\ padroes = <<>>
    /\ tipos_processuais = <<>>
    /\ modelo_embeddings = FALSE
    /\ informacoes = None
    /\ partes = None
    /\ pc = "processo"
    /\ chamadas = <<>>
    /\ retorno = None
    /\ decisao = None
    /\ palavras_chave = <<>>
    /\ resumo_executivo = <<>>
    /\ confianca = 0

(* the empty text, the scenario, a text that names two kinds of action, and *)
(* a decision with a rationale the first pattern finds                      *)
TextosDocumento ==
    {<<>>, TextoCenario,
     <<"A", "ç", "ã", "o", " ", "c", "i", "v", "i", "l", " ", "e", " ", "a", "ç", "ã", "o", " ", "p", "e", "n", "a", "l", ".", " ", "S", "e", "n", "t", "e", "n", "ç", "a", " ", "d", "e", " ", "d", "i", "r", "e", "i", "t", "o", " ", "e", " ", "l", "e", "i", ".", " ", "J", "u", "l", "g", "o", " ", "i", "m", "p", "r", "o", "c", "e", "d", "e", "n", "t", "e", " ", "o", " ", "p", "e", "d", "i", "d", "o", ".">>,
     <<"J", "u", "l", "g", "o", " ", "p", "r", "o", "c", "e", "d", "e", "n", "t", "e", " ", "o", " ", "p", "e", "d", "i", "d", "o", ".", " ", "F", "u", "n", "d", "a", "m", "e", "n", "t", "a", "ç", "ã", "o", ":", " ">> \o [k \in 1..120 |-> "a"] \o <<".">>}

(* the tagger finds nothing, or every candidate is a person and every       *)
(* alphabetic token a noun                                                   *)
AnalisesDocumento(s) ==
    {SemAnalise,
     [ents |-> {[ini |-> c[1], fim |-> c[2], label |-> "PER"] : c \in Candidatos(s)},
      substantivos |-> TRUE]}

Ambientes(falhas, pdf) ==
    { [spacy |-> s, embeddings |-> e, arquivos |-> a, modulos |-> TRUE,
       pdf |-> pdf, relatorio |-> "gerado", falha |-> f] :
        s \in BOOLEAN, e \in BOOLEAN, a \in SUBSET Arquivos, f \in falhas }

(* ---- the constructor, and analisar_processo_completo of the analyser it   *)
(* leaves, in this process and in another one                               *)

InitAnalisador ==
    /\ texto \in TextosDocumento
    /\ doc \in AnalisesDocumento(texto)
    /\ sem \in RespostasSemanticas(texto)
    /\ ambiente \in Ambientes({SemFalha}, <<>>)
    /\ lista_caminhos = <<>>
    /\ argv = <<>>
    /\ SemAnalisador

Chamar_AnalisadorJuridico ==
    /\ pc = "processo"
    /\ IF AnalisadorJuridico(ambiente).tem
       THEN /\ padroes' = AnalisadorJuridico(ambiente).val.padroes
            /\ tipos_processuais' = AnalisadorJuridico(ambiente).val.tipos_processuais
            /\ modelo_embeddings' = AnalisadorJuridico(ambiente).val.modelo_embeddings
            /\ pc' = "inicio"
       ELSE /\ pc' = "OSError"
            /\ UNCHANGED <<padroes, tipos_processuais, modelo_embeddings>>
    /\ UNCHANGED <<ambiente, lista_caminhos, argv, texto, doc, sem, retorno, informacoes,
                   partes, decisao, palavras_chave, resumo_executivo, confianca, chamadas>>

(* the same text is analysed in a second process, whose analyser has the    *)
(* same store and the same models; retorno keeps what the first one         *)
(* returned.  The hash of a str is seeded anew in each process, the order   *)
(* of list(set(...)) is chosen again.                                        *)
analisar_processo_completo_em_outro_processo ==
    /\ pc = "analisar_processo_completo"
    /\ retorno' = Some([informacoes_processuais |-> informacoes, partes |-> partes,
                        decisao |-> decisao, resumo_executivo |-> resumo_executivo,
                        palavras_chave |-> palavras_chave, confianca_analise |-> confianca])
    /\ informacoes' \in extrair_informacoes_processuais(Self, texto)
    /\ partes' \in extrair_partes_processo(Self, texto, doc)
    /\ decisao' = analisar_decisao(Self, texto, sem)
    /\ palavras_chave' = extrair_palavras_chave(Self, texto, doc)
    /\ resumo_executivo' =
           gerar_resumo_executivo(Self, informacoes', partes', decisao', texto)
    /\ confianca' = calcular_confianca_analise(informacoes', partes', texto)
    /\ pc' = "outro_processo"
    /\ Mantidos

NextAnalisador ==
    \/ Chamar_AnalisadorJuridico
    \/ analisar_processo_completo
    \/ analisar_processo_completo_em_outro_processo

SpecAnalisador == InitAnalisador /\ [][NextAnalisador]_vars

(* ---- one document, given to analisar_documento_juridico as a text or to  *)
(* processar_multiplos_documentos as the file a.pdf, or the constructor     *)
(* alone                                                                     *)

InitDocumento ==
    /\ texto \in TextosDocumento
    /\ doc \in AnalisesDocumento(texto)
    /\ sem \in RespostasSemanticas(texto)
    /\ ambiente \in Ambientes(Falhas(texto),
                              [caminho \in {"a.pdf"} |-> [destino |-> "legivel", texto |-> texto]])
    /\ lista_caminhos = <<"a.pdf">>
    /\ argv = <<>>
    /\ SemAnalisador

(* pc = "Exception": the call raised *)
Chamar_analisar_documento_juridico ==
    /\ pc = "processo"
    /\ \E resultado \in analisar_documento_juridico(texto, <<>>, ambiente, doc, sem) :
          IF Levantou(resultado)
          THEN pc' = "Exception" /\ retorno' = None
          ELSE pc' = "analisar_documento_juridico" /\ retorno' = Some(resultado)
    /\ Mantidos
    /\ UNCHANGED <<informacoes, partes, decisao, palavras_chave, resumo_executivo, confianca>>

Chamar_processar_multiplos_documentos ==
    /\ pc = "processo"
    /\ \E chamada \in processar_multiplos_documentos(lista_caminhos, ambiente, doc, sem) :
          IF Levantou(chamada)
          THEN pc' = "OSError" /\ retorno' = None
          ELSE pc' = "processar_multiplos_documentos" /\ retorno' = Some(chamada.resultados)
    /\ Mantidos
    /\ UNCHANGED <<informacoes, partes, decisao, palavras_chave, resumo_executivo, confianca>>

NextDocumento ==
    \/ Chamar_AnalisadorJuridico
    \/ Chamar_analisar_documento_juridico
    \/ Chamar_processar_multiplos_documentos

SpecDocumento == InitDocumento /\ [][NextDocumento]_vars

(* ---- gerar_analise_json, for an AnaliseProcesso of any confidence, with  *)
(* and without a decision                                                   *)

InitJson ==
    /\ ComLojaBasica
    /\ modelo_embeddings = TRUE
    /\ texto \in {<<>>, <<"J", "u", "l", "g", "o", " ", "p", "r", "o", "c", "e", "d", "e", "n", "t", "e", " ", "o", " ", "p", "e", "d", "i", "d", "o", ".">>}
    /\ doc = SemAnalise
    /\ sem = SemResposta
    /\ ambiente = AmbienteDe(Self)
    /\ lista_caminhos = <<>>
    /\ argv = <<>>
    /\ chamadas = <<>>
    /\ pc = "inicio"
    /\ retorno = None
    /\ informacoes \in extrair_informacoes_processuais(Self, texto)
    /\ partes \in {p \in PartesDadas : p.reus = <<>>}
    /\ decisao = analisar_decisao(Self, texto, sem)
    /\ palavras_chave = <<>>
    /\ resumo_executivo = <<>>
    /\ confianca \in 0..Peso(100)

Chamar_gerar_analise_json ==
    /\ pc = "inicio"
    /\ retorno' = Some(gerar_analise_json(
                      [informacoes_processuais |-> informacoes, partes |-> partes,
                       decisao |-> decisao, resumo_executivo |-> resumo_executivo,
                       palavras_chave |-> palavras_chave, confianca_analise |-> confianca],
                      <<>>))
    /\ pc' = "gerar_analise_json"
    /\ Mantidos
    /\ UNCHANGED <<informacoes, partes, decisao, palavras_chave, resumo_executivo, confianca>>

NextJson == Chamar_gerar_analise_json

SpecJson == InitJson /\ [][NextJson]_vars

(* ---- _extrair_orgao_julgador: texts that name a court, with something    *)
(* before it and something after it                                         *)

TextosOrgao ==
    { antes \o orgao \o depois :
        antes \in {<<>>, <<"A", "o", " ">>, <<"R", "e", "c", "u", "r", "s", "o", ".", " ">>},
        orgao \in {<<>>, <<"c", "a", "r", "t", "ó", "r", "i", "o">>, <<"S", "u", "p", "e", "r", "i", "o", "r", " ", "T", "r", "i", "b", "u", "n", "a", "l", " ", "d", "e", " ", "J", "u", "s", "t", "i", "ç", "a">>,
                   <<"S", "U", "P", "E", "R", "I", "O", "R", " ", "T", "R", "I", "B", "U", "N", "A", "L", " ", "D", "E", " ", "J", "U", "S", "T", "I", "Ç", "A">>, <<"S", "u", "p", "r", "e", "m", "o", " ", "T", "r", "i", "b", "u", "n", "a", "l", " ", "F", "e", "d", "e", "r", "a", "l">>,
                   <<"T", "r", "i", "b", "u", "n", "a", "l", " ", "d", "e", " ", "J", "u", "s", "t", "i", "ç", "a", " ", "d", "e", " ", "S", "ã", "o", " ", "P", "a", "u", "l", "o">>, <<"T", "r", "i", "b", "u", "n", "a", "l", " ", "R", "e", "g", "i", "o", "n", "a", "l", " ", "F", "e", "d", "e", "r", "a", "l">>,
                   <<"2", "ª", " ", "V", "a", "r", "a", " ", "C", "í", "v", "e", "l">>, <<"J", "u", "í", "z", "o", " ", "d", "e", " ", "D", "i", "r", "e", "i", "t", "o">>},
        depois \in {<<>>, <<".">>, <<" ", "e", " ", "1", "ª", " ", "V", "a", "r", "a", " ", "C", "í", "v", "e", "l", ".">>, <<".", " ", "J", "u", "í", "z", "o">>} }

(* texts for _identificar_instancia: any of the terms of the four tiers, the *)
(* terms of the later tiers written first                                    *)
TermosInstancia ==
    << <<"J", "u", "í", "z", "a", " ", "d", "e", " ", "D", "i", "r", "e", "i", "t", "o", ".", " ">>, <<"2", "ª", " ", "V", "a", "r", "a", ".", " ">>, <<"A", "p", "e", "l", "a", "ç", "ã", "o", ".", " ">>, <<"D", "e", "s", "e", "m", "b", "a", "r", "g", "a", "d", "o", "r", ".", " ">>,
       <<"S", "T", "J", ".", " ">>, <<"S", "u", "p", "e", "r", "i", "o", "r", " ", "T", "r", "i", "b", "u", "n", "a", "l", " ", "d", "e", " ", "J", "u", "s", "t", "i", "ç", "a", ".", " ">>, <<"S", "T", "F", ".", " ">>, <<"S", "u", "p", "r", "e", "m", "o", " ", "T", "r", "i", "b", "u", "n", "a", "l", " ", "F", "e", "d", "e", "r", "a", "l", ".", " ">> >>

TextosInstancia ==
    LET Termo(escolha, k) == IF k \in escolha THEN TermosInstancia[k] ELSE <<>>
    IN  { Termo(escolha, 1) \o Termo(escolha, 2) \o Termo(escolha, 3) \o Termo(escolha, 4)
              \o Termo(escolha, 5) \o Termo(escolha, 6) \o Termo(escolha, 7) \o Termo(escolha, 8) :
            escolha \in SUBSET (1..Len(TermosInstancia)) }

InitOrgao ==
    /\ ComLojaBasica
    /\ modelo_embeddings = TRUE
    /\ texto \in TextosOrgao \cup TextosInstancia
    /\ doc = SemAnalise
    /\ sem = SemResposta
    /\ informacoes = None
    /\ partes = None
    /\ NadaFeito

Chamar__extrair_orgao_julgador ==
    /\ pc = "inicio"
    /\ retorno' = Some(_extrair_orgao_julgador(texto))
    /\ pc' = "_extrair_orgao_julgador"
    /\ Mantidos
    /\ UNCHANGED <<informacoes, partes, decisao, palavras_chave, resumo_executivo, confianca>>

Chamar__identificar_instancia ==
    /\ pc = "inicio"
    /\ retorno' = Some(_identificar_instancia(texto))
    /\ pc' = "_identificar_instancia"
    /\ Mantidos
    /\ UNCHANGED <<informacoes, partes, decisao, palavras_chave, resumo_executivo, confianca>>

NextOrgao ==
    \/ Chamar__extrair_orgao_julgador
    \/ Chamar__identificar_instancia

SpecOrgao == InitOrgao /\ [][NextOrgao]_vars

(* ---- extrair_palavras_chave: texts with the first k legal terms, after   *)
(* two names and a word that occurs twice, or after nothing                 *)

TextosPalavras ==
    LET RECURSIVE Termos(_)
        Termos(k) == IF k = 0 THEN <<>> ELSE Termos(k - 1) \o termos_juridicos[k] \o <<" ">>
    IN  { antes \o Termos(k) :
            antes \in {<<>>, <<"M", "a", "r", "i", "a", " ", "S", "o", "u", "z", "a", " ", "e", " ", "B", "a", "n", "c", "o", " ", "A", "l", "f", "a", ".", " ", "O", " ", "p", "e", "d", "i", "d", "o", " ", "e", " ", "o", " ", "p", "e", "d", "i", "d", "o", ".", " ">>},
            k \in 0..Len(termos_juridicos) }
        \cup { <<"A", " ", "l", "e", "i", "t", "u", "r", "a", " ", "d", "o", " ", "c", "o", "n", "t", "r", "a", "t", "o", ".">>, <<"A", " ", "l", "e", "i", "t", "u", "r", "a", " ", "d", "a", " ", "l", "e", "i", ".">>, <<"N", "o", "r", "m", "a", "l", "m", "e", "n", "t", "e", ".">> }

InitPalavras ==
    /\ ComLoja
    /\ modelo_embeddings = TRUE
    /\ texto \in TextosPalavras
    /\ doc \in AnalisesDocumento(texto)
    /\ sem = SemResposta
    /\ informacoes = None
    /\ partes = None
    /\ NadaFeito

Chamar_extrair_palavras_chave ==
    /\ pc = "inicio"
    /\ palavras_chave' = extrair_palavras_chave(Self, texto, doc)
    /\ pc' = "extrair_palavras_chave"
    /\ Mantidos
    /\ UNCHANGED <<retorno, informacoes, partes, decisao, resumo_executivo, confianca>>

NextPalavras == Chamar_extrair_palavras_chave

SpecPalavras == InitPalavras /\ [][NextPalavras]_vars

(* ---- processar_multiplos_documentos: up to MaxCaminhos paths, each of    *)
(* two files taken any number of times; the tagger finds nothing in their   *)
(* texts, which are too short for the embedding ranking                     *)

MaxCaminhos == 3

Caminhos == {"a.pdf", "b.pdf"}

Destinos ==
    { [destino |-> destino, texto |-> <<>>] :
        destino \in {"levanta", "inexistente", "excecao", "ilegivel"} }
    \cup { [destino |-> "legivel", texto |-> t] :
             t \in {<<"J", "u", "l", "g", "o", " ", "p", "r", "o", "c", "e", "d", "e", "n", "t", "e", " ", "o", " ", "p", "e", "d", "i", "d", "o", ".">>, <<"A", "ç", "ã", "o", " ", "c", "i", "v", "i", "l", ".">>} }

InitLote ==
    /\ lista_caminhos \in UNION { [1..n -> Caminhos] : n \in 0..MaxCaminhos }
    /\ ambiente \in { [spacy |-> s, embeddings |-> FALSE, arquivos |-> {}, modulos |-> TRUE,
                       pdf |-> pdf, relatorio |-> "gerado", falha |-> f] :
                        s \in BOOLEAN, pdf \in [Caminhos -> Destinos],
                        f \in {SemFalha,
                               [etapa |-> "analisar_processo_completo", mensagem |-> "falha",
                                texto |-> <<"A", "ç", "ã", "o", " ", "c", "i", "v", "i", "l", ".">>]} }
    /\ texto = <<>>
    /\ doc = SemAnalise
    /\ sem = SemResposta
    /\ argv = <<>>
    /\ SemAnalisador

NextLote == Chamar_processar_multiplos_documentos

SpecLote == InitLote /\ [][NextLote]_vars

(* ---- python main_juridico.py, without an argument or with a.pdf *)

InitMain ==
    /\ argv \in {<<"main_juridico.py">>, <<"main_juridico.py", "a.pdf">>}
    /\ texto \in {<<"J", "u", "l", "g", "o", " ", "p", "r", "o", "c", "e", "d", "e", "n", "t", "e", " ", "o", " ", "p", "e", "d", "i", "d", "o", ".">>, <<"A", "ç", "ã", "o", " ", "c", "i", "v", "i", "l", ".">>}
    /\ ambiente \in
         { [spacy |-> s, embeddings |-> FALSE, arquivos |-> {}, modulos |-> m,
            pdf |-> [caminho \in {"a.pdf"} |-> [valido |-> v, destino |-> dest, texto |-> texto]],
            relatorio |-> r, falha |-> f] :
             s \in BOOLEAN, m \in BOOLEAN, v \in {"sim", "nao_pdf", "grande"},
             dest \in {"inexistente", "levanta", "excecao", "ilegivel", "legivel"},
             r \in {"gerado", "sem_sucesso", "excecao"}, f \in Falhas(texto) }
    /\ doc = SemAnalise
    /\ sem = SemResposta
    /\ lista_caminhos = <<>>
    /\ SemAnalisador

(* pc is the exit of the process, retorno the JSON document it printed *)
Executar_main_juridico ==
    /\ pc = "processo"
    /\ \E saida \in main_juridico(argv, ambiente, doc, sem) :
          /\ retorno' = saida.stdout
          /\ pc' = IF saida.status = 0 THEN "sys.exit(0)" ELSE "sys.exit(1)"
    /\ Mantidos
    /\ UNCHANGED <<informacoes, partes, decisao, palavras_chave, resumo_executivo, confianca>>

NextMain == Executar_main_juridico

SpecMain == InitMain /\ [][NextMain]_vars

(* ---- identificar_tipo_acao: texts with any of two action types, one of   *)
(* them in two letter cases, and of keywords of two areas                   *)
TermosTipo ==
    << <<"A", "ç", "ã", "o", " ", "c", "i", "v", "i", "l", ".", " ">>, <<"A", "Ç", "Ã", "O", " ", "C", "I", "V", "I", "L", ".", " ">>, <<"a", "ç", "ã", "o", " ", " ", "p", "e", "n", "a", "l", ".", " ">>, <<"I", "n", "d", "e", "n", "i", "z", "a", "ç", "ã", "o", ".", " ">>,
       <<"C", "r", "i", "m", "e", ".", " ">>, <<"d", "e", "n", "ú", "n", "c", "i", "a", ".", " ">>, <<"S", "e", "r", "v", "i", "d", "o", "r", " ", "e", " ", "l", "i", "c", "i", "t", "a", "ç", "ã", "o", ".", " ">> >>

TextosTipo ==
    LET Termo(escolha, k) == IF k \in escolha THEN TermosTipo[k] ELSE <<>>
    IN  { Termo(escolha, 1) \o Termo(escolha, 2) \o Termo(escolha, 3) \o Termo(escolha, 4)
              \o Termo(escolha, 5) \o Termo(escolha, 6) \o Termo(escolha, 7) :
            escolha \in SUBSET (1..Len(TermosTipo)) }

InitTipo ==
    /\ ComLoja
    /\ modelo_embeddings = TRUE
    /\ texto \in TextosTipo
    /\ doc = SemAnalise
    /\ sem = SemResposta
    /\ informacoes = None
    /\ partes = None
    /\ NadaFeito

(* list(set(tipos_encontrados)): the elements in any order *)
Chamar_identificar_tipo_acao ==
    /\ pc = "inicio"
    /\ \E lista \in Permutacoes(identificar_tipo_acao(Self, texto)) : retorno' = Some(lista)
    /\ pc' = "identificar_tipo_acao"
    /\ Mantidos
    /\ UNCHANGED <<informacoes, partes, decisao, palavras_chave, resumo_executivo, confianca>>

NextTipo == Chamar_identificar_tipo_acao

SpecTipo == InitTipo /\ [][NextTipo]_vars

(* ---- ProcessadorDocumentoJuridico.processar_documento_completo, stage by *)
(* stage.  chamadas records each stage run with what it returned; pc is the *)
(* stage that returned last, and "processar_documento_completo" after the   *)
(* return statement.                                                         *)

InitProcessador ==
    /\ argv = <<"main_juridico.py", "a.pdf">>
    /\ texto \in {<<"J", "u", "l", "g", "o", " ", "p", "r", "o", "c", "e", "d", "e", "n", "t", "e", " ", "o", " ", "p", "e", "d", "i", "d", "o", ".">>, <<"A", "ç", "ã", "o", " ", "c", "i", "v", "i", "l", ".">>}
    /\ ambiente \in
         { [spacy |-> s, embeddings |-> FALSE, arquivos |-> {}, modulos |-> TRUE,
            pdf |-> [caminho \in {"a.pdf"} |-> [valido |-> v, destino |-> dest, texto |-> texto]],
            relatorio |-> r, falha |-> f] :
             s \in BOOLEAN, v \in {"sim", "nao_pdf", "grande"},
             dest \in {"inexistente", "levanta", "excecao", "ilegivel", "legivel"},
             r \in {"gerado", "sem_sucesso", "excecao"}, f \in Falhas(texto) }
    /\ doc = SemAnalise
    /\ sem = SemResposta
    /\ lista_caminhos = <<>>
    /\ SemAnalisador

(* the result of the stage, the last one that ran *)
Resultado(etapa) == (CHOOSE c \in {chamadas[k] : k \in 1..Len(chamadas)} : c.etapa = etapa).resultado

Inalterados ==
    UNCHANGED <<ambiente, lista_caminhos, argv, padroes, tipos_processuais, modelo_embeddings,
                texto, doc, sem, informacoes, partes, decisao, palavras_chave,
                resumo_executivo, confianca>>

(* validacao = self.validar_arquivo(caminho_arquivo) *)
Chamar_validar_arquivo ==
    /\ pc = "processo"
    /\ chamadas' = Append(chamadas, [etapa |-> "validacao",
                                     resultado |-> validar_arquivo(argv[2], ambiente)])
    /\ pc' = "validacao"
    /\ UNCHANGED retorno
    /\ Inalterados

(* resultado_extracao = self.extrair_texto_documento(caminho_arquivo) *)
Chamar_extrair_texto_documento ==
    /\ pc = "validacao"
    /\ Resultado("validacao").valido
    /\ chamadas' = Append(chamadas, [etapa |-> "extracao",
                                     resultado |-> extrair_texto_documento(argv[2], ambiente)])
    /\ pc' = "extracao"
    /\ UNCHANGED retorno
    /\ Inalterados

(* resultado_analise = self.analisar_documento(...) *)
Chamar_analisar_documento ==
    /\ pc = "extracao"
    /\ Resultado("extracao").sucesso
    /\ \E resultado_analise \in
              analisar_documento(Resultado("extracao").texto_completo,
                                 Get(Resultado("extracao"), "metadados_arquivo", <<>>),
                                 ambiente, doc, sem) :
           chamadas' = Append(chamadas, [etapa |-> "analise", resultado |-> resultado_analise])
    /\ pc' = "analise"
    /\ UNCHANGED retorno
    /\ Inalterados

(* resultado_relatorio = self.gerar_relatorio_final(...) *)
Chamar_gerar_relatorio_final ==
    /\ pc = "analise"
    /\ Get(Resultado("analise"), "erro", "") = ""
    /\ chamadas' = Append(chamadas,
           [etapa |-> "relatorio",
            resultado |-> gerar_relatorio_final(Resultado("analise"),
                                                Resultado("validacao").nome_arquivo, ambiente)])
    /\ pc' = "relatorio"
    /\ UNCHANGED retorno
    /\ Inalterados

(* return self._criar_resposta_erro(..., fase=...) after the stage whose    *)
(* result the if statement finds failed                                      *)
Devolver__criar_resposta_erro ==
    /\ pc \in {"validacao", "extracao", "analise"}
    /\ retorno' =
         IF pc = "validacao" /\ ~Resultado("validacao").valido
         THEN Some(_criar_resposta_erro(Resultado("validacao").erro, "validacao"))
         ELSE IF pc = "extracao" /\ ~Resultado("extracao").sucesso
         THEN Some(_criar_resposta_erro(Get(Resultado("extracao"), "erro", "Erro na extração"),
                                        "extracao"))
         ELSE IF pc = "analise" /\ Get(Resultado("analise"), "erro", "") # ""
         THEN Some(_criar_resposta_erro(Resultado("analise").erro, "analise"))
         ELSE None
    /\ retorno'.tem
    /\ pc' = "processar_documento_completo"
    /\ UNCHANGED chamadas
    /\ Inalterados

(* the return statement, were a report that failed made an error response *)
Devolver__criar_resposta_sucesso_so_com_relatorio ==
    /\ pc = "relatorio"
    /\ retorno' = IF Resultado("relatorio").sucesso
                  THEN Some(_criar_resposta_sucesso(Resultado("analise"), Resultado("relatorio"),
                                                    Resultado("validacao")))
                  ELSE Some(_criar_resposta_erro(Resultado("relatorio").erro, "relatorio"))
    /\ pc' = "processar_documento_completo"
    /\ UNCHANGED chamadas
    /\ Inalterados

(* return resposta_final *)
Devolver__criar_resposta_sucesso ==
    /\ pc = "relatorio"
    /\ retorno' = Some(_criar_resposta_sucesso(Resultado("analise"), Resultado("relatorio"),
                                               Resultado("validacao")))
    /\ pc' = "processar_documento_completo"
    /\ UNCHANGED chamadas
    /\ Inalterados

NextProcessador ==
    \/ Chamar_validar_arquivo
    \/ Chamar_extrair_texto_documento
    \/ Chamar_analisar_documento
    \/ Chamar_gerar_relatorio_final
    \/ Devolver__criar_resposta_erro
    \/ Devolver__criar_resposta_sucesso

SpecProcessador == InitProcessador /\ [][NextProcessador]_vars

(* ---- ExtratorTextoJuridico.extrair_texto_hibrido, method by method.      *)
(* What each library extracts from the file is given (ambiente.metodos): a  *)
(* failure, or a text: none, a list of legal words with a number, a         *)
(* sentence with legal words, or two sentences of a ruling.  chamadas       *)
(* records the methods run with their results.                               *)

TextosExtraidos ==
    { <<>>,
      <<"P", "r", "o", "c", "e", "s", "s", "o", " ", "1", "2", "3", "4", "5", "6", "7", " ", "S", "e", "n", "t", "e", "n", "ç", "a", " ", "A", "u", "t", "o", "r", " ", "R", "é", "u", " ", "J", "u", "i", "z", " ", "T", "r", "i", "b", "u", "n", "a", "l", " ", "D", "i", "r", "e", "i", "t", "o", " ", "L", "e", "i", " ", "A", "r", "t", "i", "g", "o", " ", "C", "ó", "d", "i", "g", "o", " ", "D", "e", "c", "i", "s", "ã", "o", " ", "R", "e", "c", "u", "r", "s", "o">>,
      <<"P", "r", "o", "c", "e", "s", "s", "o", " ", "1", "2", " ", "S", "e", "n", "t", "e", "n", "ç", "a", " ", "d", "o", " ", "A", "u", "t", "o", "r", " ", "c", "o", "n", "t", "r", "a", " ", "o", " ", "R", "é", "u", " ", "n", "o", " ", "T", "r", "i", "b", "u", "n", "a", "l", " ", "d", "e", " ", "D", "i", "r", "e", "i", "t", "o", " ", "c", "o", "n", "f", "o", "r", "m", "e", " ", "L", "e", "i", " ", "e", " ", "A", "r", "t", "i", "g", "o", " ", "d", "o", " ", "C", "ó", "d", "i", "g", "o">>,
      <<"[", "P", "Á", "G", "I", "N", "A", " ", "1", "]", "\n", "P", "r", "o", "c", "e", "s", "s", "o", " ", "1", "2", "3", "4", "5", "6", "7", ".", " ", "S", "e", "n", "t", "e", "n", "ç", "a", ":", " ", "o", " ", "a", "u", "t", "o", "r", " ", "p", "e", "d", "e", ";", " ", "o", " ", "r", "é", "u", " ", "c", "o", "n", "t", "e", "s", "t", "a", ".", " ", "J", "u", "l", "g", "o", " ", "p", "r", "o", "c", "e", "d", "e", "n", "t", "e", " ", "o", " ", "p", "e", "d", "i", "d", "o", ".">> }

ResultadosDoMetodo ==
    { [sucesso |-> FALSE, erro |-> "falha"] }
        \cup { [sucesso |-> TRUE, metadados |-> "metadados", paginas |-> "paginas",
                texto_completo |-> t] : t \in TextosExtraidos }

InitHibrido ==
    /\ ambiente \in { [metodos |-> [pymupdf |-> a, pdfplumber |-> b, ocr |-> c]] :
                        a \in ResultadosDoMetodo, b \in ResultadosDoMetodo,
                        c \in ResultadosDoMetodo }
    /\ argv = <<>>
    /\ lista_caminhos = <<"a.pdf">>
    /\ texto = <<>>
    /\ doc = SemAnalise
    /\ sem = SemResposta
    /\ SemAnalisador

(* resultado_pymupdf = self.extrair_texto_pymupdf(caminho_pdf) *)
Chamar_extrair_texto_pymupdf ==
    /\ pc = "processo"
    /\ chamadas' = Append(chamadas, [etapa |-> "pymupdf", resultado |-> ambiente.metodos.pymupdf])
    /\ pc' = "pymupdf"
    /\ UNCHANGED retorno
    /\ Inalterados

(* resultado_pdfplumber = self.extrair_texto_pdfplumber(caminho_pdf) *)
Chamar_extrair_texto_pdfplumber ==
    /\ pc = "pymupdf"
    /\ ~Aproveitado("pymupdf", Resultado("pymupdf"))
    /\ chamadas' = Append(chamadas, [etapa |-> "pdfplumber",
                                     resultado |-> ambiente.metodos.pdfplumber])
    /\ pc' = "pdfplumber"
    /\ UNCHANGED retorno
    /\ Inalterados

(* resultado_ocr = self.extrair_texto_ocr(caminho_pdf) *)
Chamar_extrair_texto_ocr ==
    /\ pc = "pdfplumber"
    /\ ~Aproveitado("pdfplumber", Resultado("pdfplumber"))
    /\ chamadas' = Append(chamadas, [etapa |-> "ocr", resultado |-> ambiente.metodos.ocr])
    /\ pc' = "ocr"
    /\ UNCHANGED retorno
    /\ Inalterados

(* return resultado_pymupdf, return resultado_pdfplumber, return            *)
(* resultado_ocr: the result of the method that has just run                *)
Devolver_resultado_do_metodo ==
    /\ pc \in {"pymupdf", "pdfplumber", "ocr"}
    /\ Aproveitado(pc, Resultado(pc))
    /\ retorno' = Some(Resultado(pc))
    /\ pc' = "extrair_texto_hibrido"
    /\ UNCHANGED chamadas
    /\ Inalterados

(* the last return statement *)
Devolver_falha_em_todos ==
    /\ pc = "ocr"
    /\ ~Aproveitado("ocr", Resultado("ocr"))
    /\ retorno' = Some(FalhaEmTodos(Resultado("pymupdf"), Resultado("pdfplumber"),
                                    Resultado("ocr")))
    /\ pc' = "extrair_texto_hibrido"
    /\ UNCHANGED chamadas
    /\ Inalterados

NextHibrido ==
    \/ Chamar_extrair_texto_pymupdf
    \/ Chamar_extrair_texto_pdfplumber
    \/ Chamar_extrair_texto_ocr
    \/ Devolver_resultado_do_metodo
    \/ Devolver_falha_em_todos

SpecHibrido == InitHibrido /\ [][NextHibrido]_vars
-----------------------------------------------------------------------------
(* The properties checked.  Ocorre(termo) is  termo in texto.lower() .      *)

Ocorre(termo) == Contains(Lower(texto), termo)

(* C1 (as the specification states it): for every operative clause that     *)
(* contains 'parcialmente procedente', in any case, the outcome             *)
(* _determinar_resultado_decisao returns is 'Parcialmente procedente', not  *)
(* 'Procedente'.  The source tests 'procedente' first: the property fails.  *)
C1_ParcialmenteProcedente ==
    (pc = "_determinar_resultado_decisao" /\ Ocorre(<<"p", "a", "r", "c", "i", "a", "l", "m", "e", "n", "t", "e", " ", "p", "r", "o", "c", "e", "d", "e", "n", "t", "e">>))
        => retorno.val = <<"P", "a", "r", "c", "i", "a", "l", "m", "e", "n", "t", "e", " ", "p", "r", "o", "c", "e", "d", "e", "n", "t", "e">>

(* C1, the state that refutes it: the clause grants the claim in part and   *)
(* the outcome returned is 'Procedente'                                      *)
C1_ParcialViraProcedente ==
    /\ pc = "_determinar_resultado_decisao"
    /\ texto = <<"J", "U", "L", "G", "O", " ", "P", "A", "R", "C", "I", "A", "L", "M", "E", "N", "T", "E", " ", "P", "R", "O", "C", "E", "D", "E", "N", "T", "E", " ", "o", " ", "p", "e", "d", "i", "d", "o", ".">>
    /\ retorno.val = <<"P", "r", "o", "c", "e", "d", "e", "n", "t", "e">>

(* the shape NNNNNNN-DD.AAAA.J.TR.OOOO *)
TemFormaCNJ(r) ==
    /\ Len(r) = 25
    /\ r[8] = "-" /\ r[11] = "." /\ r[16] = "." /\ r[18] = "." /\ r[21] = "."
    /\ \A i \in (1..25) \ {8, 11, 16, 18, 21} : r[i] \in Digito

(* what the first case-number pattern that matches texto captures *)
Captura == PrimeiraCaptura(padroes.NUMERO_PROCESSO, 1, texto)

(* C2: whenever the first case-number pattern that matches captures text    *)
(* with exactly 20 digits, extrair_numero_processo returns a string of the  *)
(* shape NNNNNNN-DD.AAAA.J.TR.OOOO whose digits are the captured digits in  *)
(* their order.                                                              *)
C2_FormatoCNJ ==
    (pc = "extrair_numero_processo" /\ Captura.tem /\ Len(SoDigitos(Captura.val)) = 20)
        => /\ retorno.tem
           /\ TemFormaCNJ(retorno.val)
           /\ SoDigitos(retorno.val) = SoDigitos(Captura.val)

(* C2, its case: a capture of 20 digits written otherwise than in the       *)
(* canonical shape has been normalised                                       *)
C2_Normalizado ==
    /\ pc = "extrair_numero_processo"
    /\ Captura.tem
    /\ Len(SoDigitos(Captura.val)) = 20
    /\ ~TemFormaCNJ(Captura.val)
    /\ retorno.tem
    /\ retorno.val # Captura.val

C4_ConfiancaNoIntervalo ==
    pc = "calcular_confianca_analise" => (confianca >= 0 /\ confianca <= Peso(100))

(* C4, its case: the score of the empty text with a case number, a type, a  *)
(* deciding body and parties identified                                      *)
C4_TextoVazioPontuado ==
    /\ pc = "calcular_confianca_analise"
    /\ texto = <<>>
    /\ Len(partes.autores) + Len(partes.reus) >= 2
    /\ confianca = Peso(25) + Peso(20) + Peso(15) + Peso(10)

(* the words of a text: its maximal runs of word characters, in lower case *)
PalavrasDe(t) ==
    { Lower(SubSeq(t, i, j)) :
        <<i, j>> \in { p \in (1..Len(t)) \X (1..Len(t)) :
                         /\ p[1] <= p[2]
                         /\ \A k \in p[1]..p[2] : t[k] \in Palavra
                         /\ p[1] = 1 \/ t[p[1] - 1] \notin Palavra
                         /\ p[2] = Len(t) \/ t[p[2] + 1] \notin Palavra } }

(* the six signals of C5, in units of 1/700 *)
SinalNumero == IF informacoes.numero_processo # <<"N", "ã", "o", " ", "i", "d", "e", "n", "t", "i", "f", "i", "c", "a", "d", "o">> THEN 175 ELSE 0
SinalPartes ==
    LET n == Len(partes.autores) + Len(partes.reus)
    IN  IF n >= 2 THEN 140 ELSE IF n = 1 THEN 70 ELSE 0
SinalTipo == IF informacoes.tipo_acao[1] # <<"T", "i", "p", "o", " ", "n", "ã", "o", " ", "i", "d", "e", "n", "t", "i", "f", "i", "c", "a", "d", "o">> THEN 105 ELSE 0
SinalOrgao == IF informacoes.orgao_julgador # <<"Ó", "r", "g", "ã", "o", " ", "n", "ã", "o", " ", "i", "d", "e", "n", "t", "i", "f", "i", "c", "a", "d", "o">> THEN 70 ELSE 0
SinalTexto ==
    15 * Cardinality({ p \in {<<"p", "r", "o", "c", "e", "s", "s", "o">>, <<"s", "e", "n", "t", "e", "n", "ç", "a">>, <<"d", "e", "c", "i", "s", "ã", "o">>, <<"a", "u", "t", "o", "r">>, <<"r", "é", "u">>,
                              <<"d", "i", "r", "e", "i", "t", "o">>, <<"l", "e", "i">>} : p \in PalavrasDe(texto) })
SinalDecisao ==
    IF Ocorre(<<"j", "u", "l", "g", "o">>) \/ Ocorre(<<"d", "e", "c", "i", "d", "o">>) \/ Ocorre(<<"s", "e", "n", "t", "e", "n", "ç", "a">>) \/ Ocorre(<<"d", "i", "s", "p", "o", "s", "i", "t", "i", "v", "o">>)
    THEN 105 ELSE 0
SomaDosSinais ==
    SinalNumero + SinalPartes + SinalTipo + SinalOrgao + SinalTexto + SinalDecisao

(* C5: calcular_confianca_analise returns exactly the sum of the six        *)
(* signals: 0.25 iff the case number is not the sentinel; 0.20 for two or   *)
(* more plaintiffs and defendants, 0.10 for one; 0.15 iff the action type   *)
(* is not the sentinel; 0.10 iff the deciding body is not the sentinel;     *)
(* (k/7)*0.15 for k of the 7 legal words present as whole words; 0.15 iff   *)
(* a ruling term occurs.  The sum never exceeds 1.0, so the cap never       *)
(* changes it.                                                               *)
C5_SomaDosSinais ==
    pc = "calcular_confianca_analise"
        => (confianca = SomaDosSinais /\ SomaDosSinais <= 700)

(* C5, its case: every signal at its weight, the sum exactly 1.0 *)
C5_SomaMaxima ==
    /\ pc = "calcular_confianca_analise"
    /\ SinalNumero = 175 /\ SinalPartes = 140 /\ SinalTipo = 105 /\ SinalOrgao = 70
    /\ SinalTexto = 105 /\ SinalDecisao = 105
    /\ confianca = 700

(* C6: whatever the party patterns, the attorney patterns and the tagger    *)
(* find, the PartesProcesso extrair_partes_processo returns has at most 5   *)
(* plaintiffs, 5 defendants, 3 third parties and 10 attorneys.              *)
C6_Tetos ==
    pc = "extrair_partes_processo"
        => /\ Len(partes.autores) <= 5
           /\ Len(partes.reus) <= 5
           /\ Len(partes.terceiros) <= 3
           /\ Cardinality(partes.advogados) <= 10

(* C6, its case: more names than the cap were found for every list, and    *)
(* each list returned is exactly at its cap                                 *)
C6_TodasCortadas ==
    /\ pc = "extrair_partes_processo"
    /\ LET l == ListasPartes(Self, texto, doc)
       IN  /\ Len(l.autores) > 5 /\ Len(l.reus) > 5 /\ Len(l.terceiros) > 3
           /\ Cardinality({l.advogados[k] : k \in 1..Len(l.advogados)}) > 10
    /\ Len(partes.autores) = 5
    /\ Len(partes.reus) = 5
    /\ Len(partes.terceiros) = 3
    /\ Cardinality(partes.advogados) = 10

(* C7 (as the specification states it): the rationale summary               *)
(* _extrair_fundamentacao_resumida returns, from a pattern hit or from the  *)
(* semantic fallback, is at most 300 characters long.  The source appends   *)
(* '...' to the 300 characters it keeps: the property fails.                *)
C7_NoMaximo300 ==
    pc = "_extrair_fundamentacao_resumida" => Len(retorno.val) <= 300

(* C7, the states that refute it: a summary of 303 characters from a        *)
(* pattern hit, and one from the semantic fallback                          *)
C7_Resumo303 ==
    /\ pc = "_extrair_fundamentacao_resumida"
    /\ Len(retorno.val) = 303
    /\ SubSeq(retorno.val, 301, 303) = <<".", ".", ".">>
    /\ \/ Ocorre(<<"f", "u", "n", "d", "a", "m", "e", "n", "t", "a", "ç", "ã", "o", ":">>)
       \/ (modelo_embeddings /\ ~sem.erro /\ Len(sem.topo) = 2)

(* C8: _classificar_tipo_decisao is a first-hit-wins cascade over the whole *)
(* text, wherever the terms occur: 'sentença', else 'acórdão', else an      *)
(* interlocutory marker, else 'despacho', else the sentinel.                *)
C8_Cascata ==
    pc = "_classificar_tipo_decisao"
        => /\ Ocorre(<<"s", "e", "n", "t", "e", "n", "ç", "a">>) => retorno.val = <<"S", "e", "n", "t", "e", "n", "ç", "a">>
           /\ (~Ocorre(<<"s", "e", "n", "t", "e", "n", "ç", "a">>) /\ Ocorre(<<"a", "c", "ó", "r", "d", "ã", "o">>)) => retorno.val = <<"A", "c", "ó", "r", "d", "ã", "o">>
           /\ (/\ ~Ocorre(<<"s", "e", "n", "t", "e", "n", "ç", "a">>) /\ ~Ocorre(<<"a", "c", "ó", "r", "d", "ã", "o">>)
               /\ (\/ Ocorre(<<"d", "e", "c", "i", "s", "ã", "o", " ", "i", "n", "t", "e", "r", "l", "o", "c", "u", "t", "ó", "r", "i", "a">>) \/ Ocorre(<<"d", "e", "f", "i", "r", "o">>)
                   \/ Ocorre(<<"i", "n", "d", "e", "f", "i", "r", "o">>)))
                  => retorno.val = <<"D", "e", "c", "i", "s", "ã", "o", " ", "i", "n", "t", "e", "r", "l", "o", "c", "u", "t", "ó", "r", "i", "a">>
           /\ (/\ ~Ocorre(<<"s", "e", "n", "t", "e", "n", "ç", "a">>) /\ ~Ocorre(<<"a", "c", "ó", "r", "d", "ã", "o">>)
               /\ ~Ocorre(<<"d", "e", "c", "i", "s", "ã", "o", " ", "i", "n", "t", "e", "r", "l", "o", "c", "u", "t", "ó", "r", "i", "a">>) /\ ~Ocorre(<<"d", "e", "f", "i", "r", "o">>)
               /\ ~Ocorre(<<"i", "n", "d", "e", "f", "i", "r", "o">>) /\ Ocorre(<<"d", "e", "s", "p", "a", "c", "h", "o">>))
                  => retorno.val = <<"D", "e", "s", "p", "a", "c", "h", "o">>
           /\ (/\ ~Ocorre(<<"s", "e", "n", "t", "e", "n", "ç", "a">>) /\ ~Ocorre(<<"a", "c", "ó", "r", "d", "ã", "o">>)
               /\ ~Ocorre(<<"d", "e", "c", "i", "s", "ã", "o", " ", "i", "n", "t", "e", "r", "l", "o", "c", "u", "t", "ó", "r", "i", "a">>) /\ ~Ocorre(<<"d", "e", "f", "i", "r", "o">>)
               /\ ~Ocorre(<<"i", "n", "d", "e", "f", "i", "r", "o">>) /\ ~Ocorre(<<"d", "e", "s", "p", "a", "c", "h", "o">>))
                  => retorno.val = <<"D", "e", "c", "i", "s", "ã", "o", " ", "n", "ã", "o", " ", "c", "l", "a", "s", "s", "i", "f", "i", "c", "a", "d", "a">>

(* C8, its case: 'acórdão' after an interlocutory marker, and no 'sentença' *)
C8_AcordaoSemSentenca ==
    /\ pc = "_classificar_tipo_decisao"
    /\ texto = <<"D", "e", "c", "i", "d", "o", ":", " ", "d", "e", "f", "i", "r", "o", " ", "a", " ", "l", "i", "m", "i", "n", "a", "r", ".", " ", "A", "c", "ó", "r", "d", "ã", "o", " ", "p", "u", "b", "l", "i", "c", "a", "d", "o", ".">>
    /\ retorno.val = <<"A", "c", "ó", "r", "d", "ã", "o">>

(* C9: for the empty text analisar_processo_completo returns, and every     *)
(* field is its sentinel or empty: the case number, the action type, the    *)
(* deciding body and the instance are their sentinels, the filing date and  *)
(* the case value are None, the four party lists and the keyword list are   *)
(* empty, the decision is None and the score is 0.0.                        *)
C9_TextoVazio ==
    (pc = "analisar_processo_completo" /\ texto = <<>>)
        => /\ informacoes.numero_processo = <<"N", "ã", "o", " ", "i", "d", "e", "n", "t", "i", "f", "i", "c", "a", "d", "o">>
           /\ informacoes.tipo_acao = << <<"T", "i", "p", "o", " ", "n", "ã", "o", " ", "i", "d", "e", "n", "t", "i", "f", "i", "c", "a", "d", "o">> >>
           /\ informacoes.orgao_julgador = <<"Ó", "r", "g", "ã", "o", " ", "n", "ã", "o", " ", "i", "d", "e", "n", "t", "i", "f", "i", "c", "a", "d", "o">>
           /\ informacoes.instancia = <<"I", "n", "s", "t", "â", "n", "c", "i", "a", " ", "n", "ã", "o", " ", "i", "d", "e", "n", "t", "i", "f", "i", "c", "a", "d", "a">>
           /\ informacoes.data_distribuicao = None
           /\ informacoes.valor_causa = None
           /\ partes.autores = <<>>
           /\ partes.reus = <<>>
           /\ partes.terceiros = <<>>
           /\ partes.advogados = {}
           /\ palavras_chave = <<>>
           /\ decisao = None
           /\ confianca = 0

(* C9, its case: the analysis of the empty text has returned *)
C9_VazioAnalisado ==
    /\ pc = "analisar_processo_completo"
    /\ texto = <<>>
    /\ Len(resumo_executivo) > 0

(* C10 (as the specification states it): for the scenario text analysed     *)
(* with the built-in Pattern Store, the case number is                      *)
(* '1234567-12.2020.1.01.0001', the plaintiffs contain 'João da Silva', the *)
(* defendants contain 'Empresa XYZ Ltda', the outcome is 'Procedente' and   *)
(* the score is above 0.4.  The party pattern has no 'ã' in its character   *)
(* class and does not capture 'João da Silva': the property fails whenever  *)
(* the tagger does not label that name a person.                            *)
C10_Cenario ==
    (pc = "analisar_processo_completo" /\ texto = TextoCenario /\ padroes = _padroes_basicos)
        => /\ informacoes.numero_processo = <<"1", "2", "3", "4", "5", "6", "7", "-", "1", "2", ".", "2", "0", "2", "0", ".", "1", ".", "0", "1", ".", "0", "0", "0", "1">>
           /\ Pertence(<<"J", "o", "ã", "o", " ", "d", "a", " ", "S", "i", "l", "v", "a">>, partes.autores)
           /\ Pertence(<<"E", "m", "p", "r", "e", "s", "a", " ", "X", "Y", "Z", " ", "L", "t", "d", "a">>, partes.reus)
           /\ decisao.tem
           /\ decisao.val.resultado = <<"P", "r", "o", "c", "e", "d", "e", "n", "t", "e">>
           /\ confianca > Peso(40)

(* C10, the state that refutes it: the tagger labels nothing, and the       *)
(* plaintiffs are empty while everything else is as the scenario says       *)
C10_SemAutores ==
    /\ pc = "analisar_processo_completo"
    /\ texto = TextoCenario
    /\ padroes = _padroes_basicos
    /\ doc.ents = {}
    /\ partes.autores = <<>>
    /\ informacoes.numero_processo = <<"1", "2", "3", "4", "5", "6", "7", "-", "1", "2", ".", "2", "0", "2", "0", ".", "1", ".", "0", "1", ".", "0", "0", "0", "1">>
    /\ Pertence(<<"E", "m", "p", "r", "e", "s", "a", " ", "X", "Y", "Z", " ", "L", "t", "d", "a">>, partes.reus)
    /\ decisao.tem
    /\ decisao.val.resultado = <<"P", "r", "o", "c", "e", "d", "e", "n", "t", "e">>
    /\ confianca > Peso(40)


-----------------------------------------------------------------------------
(* C16: when one of the two configuration files is absent the constructor   *)
(* does not fail for that (it raises only without the language model), the  *)
(* analyser it leaves has the built-in patterns and the built-in areas,     *)
(* both, and the analysis that follows is the one these give.               *)
C16_PadroesBasicos ==
    /\ pc = "OSError" => ~ambiente.spacy
    /\ pc \in {"inicio", "analisar_processo_completo"} /\ ~(Arquivos \subseteq ambiente.arquivos)
         => /\ padroes = _padroes_basicos
            /\ tipos_processuais = _tipos_basicos
    /\ pc = "analisar_processo_completo" /\ ~(Arquivos \subseteq ambiente.arquivos)
         => /\ informacoes \in extrair_informacoes_processuais(
                    [padroes |-> _padroes_basicos, tipos_processuais |-> _tipos_basicos,
                     modelo_embeddings |-> modelo_embeddings], texto)
            /\ partes \in extrair_partes_processo(
                    [padroes |-> _padroes_basicos, tipos_processuais |-> _tipos_basicos,
                     modelo_embeddings |-> modelo_embeddings], texto, doc)

(* one file is there, the other is not, and the analysis has run *)
C16_UmArquivoSo ==
    /\ pc = "analisar_processo_completo"
    /\ ambiente.arquivos = {"patterns_juridicos.yaml"}
    /\ padroes = _padroes_basicos
    /\ informacoes.numero_processo # <<"N", "ã", "o", " ", "i", "d", "e", "n", "t", "i", "f", "i", "c", "a", "d", "o">>

-----------------------------------------------------------------------------
(* C19: in what gerar_analise_json returns, nivel_confianca is "Alto" iff   *)
(* the confidence is above 0.7, "Médio" iff it is above 0.4 and at most     *)
(* 0.7, "Baixo" iff it is at most 0.4, and tem_decisao is true iff the      *)
(* analysis has a decision.                                                  *)
C19_NivelConfianca ==
    pc = "gerar_analise_json" =>
        /\ retorno.val.estatisticas.nivel_confianca = "Alto" <=> confianca > Peso(70)
        /\ retorno.val.estatisticas.nivel_confianca = "Médio"
               <=> confianca > Peso(40) /\ confianca <= Peso(70)
        /\ retorno.val.estatisticas.nivel_confianca = "Baixo" <=> confianca <= Peso(40)
        /\ retorno.val.estatisticas.tem_decisao <=> decisao.tem

(* a confidence of 0.7 exactly, with a decision *)
C19_NoLimiar ==
    /\ pc = "gerar_analise_json"
    /\ confianca = Peso(70)
    /\ decisao.tem
    /\ retorno.val.estatisticas.nivel_confianca = "Médio"
    /\ retorno.val.estatisticas.tem_decisao

-----------------------------------------------------------------------------
(* C20: the exact names of the superior courts are tried before the generic *)
(* patterns: for a text that names the Superior Tribunal de Justiça         *)
(* _extrair_orgao_julgador returns that name, for one that names the        *)
(* Supremo Tribunal Federal and not the other it returns that name, and it  *)
(* returns the sentinel iff none of the five patterns matches.              *)
C20_SuperioresPrimeiro ==
    pc = "_extrair_orgao_julgador" =>
        /\ Contains(Lower(texto), <<"s", "u", "p", "e", "r", "i", "o", "r", " ", "t", "r", "i", "b", "u", "n", "a", "l", " ", "d", "e", " ", "j", "u", "s", "t", "i", "ç", "a">>)
             => Lower(retorno.val) = <<"s", "u", "p", "e", "r", "i", "o", "r", " ", "t", "r", "i", "b", "u", "n", "a", "l", " ", "d", "e", " ", "j", "u", "s", "t", "i", "ç", "a">>
        /\ /\ Contains(Lower(texto), <<"s", "u", "p", "r", "e", "m", "o", " ", "t", "r", "i", "b", "u", "n", "a", "l", " ", "f", "e", "d", "e", "r", "a", "l">>)
           /\ ~Contains(Lower(texto), <<"s", "u", "p", "e", "r", "i", "o", "r", " ", "t", "r", "i", "b", "u", "n", "a", "l", " ", "d", "e", " ", "j", "u", "s", "t", "i", "ç", "a">>)
             => Lower(retorno.val) = <<"s", "u", "p", "r", "e", "m", "o", " ", "t", "r", "i", "b", "u", "n", "a", "l", " ", "f", "e", "d", "e", "r", "a", "l">>
        /\ retorno.val = <<"Ó", "r", "g", "ã", "o", " ", "n", "ã", "o", " ", "i", "d", "e", "n", "t", "i", "f", "i", "c", "a", "d", "o">>
             <=> \A k \in 1..Len(padroes_orgao) : \A i \in 1..Len(texto) :
                     CasaOrgao(texto, i, padroes_orgao[k]) = 0

(* the text names the Superior Tribunal de Justiça and nothing else, and    *)
(* what is returned is the match of the generic pattern inside that name    *)
C20_GenericoPrimeiro ==
    /\ pc = "_extrair_orgao_julgador"
    /\ texto = <<"S", "u", "p", "e", "r", "i", "o", "r", " ", "T", "r", "i", "b", "u", "n", "a", "l", " ", "d", "e", " ", "J", "u", "s", "t", "i", "ç", "a", ".">>
    /\ retorno.val = <<"T", "r", "i", "b", "u", "n", "a", "l", " ", "d", "e", " ", "J", "u", "s", "t", "i", "ç", "a">>

-----------------------------------------------------------------------------
(* C12: the list extrair_palavras_chave returns has at most 15 entries, no  *)
(* entry twice, and each entry is less than the next one as Python strings  *)
(* compare.                                                                  *)
C12_QuinzeOrdenadas ==
    pc = "extrair_palavras_chave" =>
        /\ Len(palavras_chave) <= 15
        /\ \A i, j \in 1..Len(palavras_chave) : i # j => palavras_chave[i] # palavras_chave[j]
        /\ \A i \in 1..(Len(palavras_chave) - 1) : Menor(palavras_chave[i], palavras_chave[i + 1])

(* more than fifteen candidates, a term that is also an area among them:    *)
(* fifteen are returned, and the last one in order is not                   *)
C12_MaisDeQuinze ==
    /\ pc = "extrair_palavras_chave"
    /\ Len(extrair_palavras_chave_sem_teto(Self, texto, doc)) > 15
    /\ Contains(Lower(texto), <<"p", "e", "n", "a", "l">>)
    /\ Len(palavras_chave) = 15
    /\ \A i \in 1..15 : palavras_chave[i] # <<"t", "r", "i", "b", "u", "t", "á", "r", "i", "o">>

-----------------------------------------------------------------------------
(* C13: analisar_documento_juridico does not raise; when the constructor or *)
(* a step of the analysis raises, it returns a dictionary with exactly the  *)
(* keys erro, timestamp_erro and sucesso, erro being the message of the     *)
(* exception and sucesso False.                                              *)
C13_ErroEstruturado ==
    /\ pc # "Exception"
    /\ pc = "analisar_documento_juridico" /\ EtapaQueFalha(texto, ambiente) # "nenhuma"
         => /\ DOMAIN retorno.val = {"erro", "timestamp_erro", "sucesso"}
            /\ retorno.val.erro = MensagemDaFalha(texto, ambiente)
            /\ retorno.val.sucesso = FALSE

(* the last step raised, after the analysis had been made *)
C13_FalhaNoFim ==
    /\ pc = "analisar_documento_juridico"
    /\ ambiente.spacy
    /\ ambiente.falha.etapa = "gerar_analise_json"
    /\ texto = TextoCenario
    /\ retorno.val.erro = "falha"
    /\ "analise_completa" \notin DOMAIN retorno.val

-----------------------------------------------------------------------------
(* a result of analisar_documento_juridico without what the semantic        *)
(* features give: the rationale of the decision and analise_semantica       *)
SemSemantica(resultado) ==
    [analise_completa |->
         [resultado.analise_completa EXCEPT
              !.decisao = IF @.tem THEN Some([@.val EXCEPT !.fundamentacao_resumida = <<>>])
                          ELSE @],
     estatisticas |-> resultado.estatisticas,
     custas_honorarios |-> resultado.informacoes_adicionais.custas_honorarios,
     relatorio_texto |-> resultado.relatorio_texto,
     sentenca_integra |-> resultado.sentenca_integra]

-----------------------------------------------------------------------------
(* the entry of document k of the batch is the entry of a failure *)
EntradaDeFalha(k) ==
    /\ "erro" \in DOMAIN retorno.val[k]
    /\ retorno.val[k].sucesso = FALSE

(* extraction or analysis of the document at this path fails *)
DocumentoFalha(caminho) ==
    \/ ambiente.pdf[caminho].destino # "legivel"
    \/ EtapaQueFalha(ambiente.pdf[caminho].texto, ambiente) # "nenhuma"

(* C15: once its analyser is built, processar_multiplos_documentos returns; *)
(* the list it returns has one entry for each path, in the order of the     *)
(* paths; the entry of a document whose extraction or analysis fails        *)
(* carries the error and sucesso False, and the entry of any other          *)
(* document, later ones too, is its analysis.                               *)
C15_UmaEntradaPorCaminho ==
    /\ pc = "OSError" => ~ambiente.spacy
    /\ pc = "processar_multiplos_documentos" =>
        /\ Len(retorno.val) = Len(lista_caminhos)
        /\ \A k \in 1..Len(lista_caminhos) :
               /\ Get(retorno.val[k], "arquivo",
                      Get(retorno.val[k], "arquivo_origem", "")) = lista_caminhos[k]
               /\ IF DocumentoFalha(lista_caminhos[k])
                  THEN EntradaDeFalha(k)
                  ELSE /\ "erro" \notin DOMAIN retorno.val[k]
                       /\ retorno.val[k].sentenca_integra
                              = ambiente.pdf[lista_caminhos[k]].texto

(* the extraction of the first document raises, the second is analysed,    *)
(* and the third is the first again                                          *)
C15_FalhasIsoladas ==
    /\ pc = "processar_multiplos_documentos"
    /\ Len(lista_caminhos) = 3
    /\ ambiente.pdf[lista_caminhos[1]].destino = "levanta"
    /\ lista_caminhos[3] = lista_caminhos[1]
    /\ EntradaDeFalha(1)
    /\ "analise_completa" \in DOMAIN retorno.val[2]
    /\ EntradaDeFalha(3)


-----------------------------------------------------------------------------
(* C18: without the language model no analyser is built and nothing takes   *)
(* its place: AnalisadorJuridico() and processar_multiplos_documentos raise *)
(* OSError to their caller and return nothing, and                          *)
(* analisar_documento_juridico, whose try holds the constructor, returns    *)
(* the error dictionary with the message of that exception; none of them    *)
(* runs a stage of the analysis.                                             *)
C18_SemModeloDeLinguagem ==
    ~ambiente.spacy =>
        /\ pc \in {"processo", "OSError", "analisar_documento_juridico"}
        /\ padroes = <<>> /\ tipos_processuais = <<>>
        /\ pc = "OSError" => retorno = None
        /\ pc = "analisar_documento_juridico" => retorno.val = ResultadoDeErro("E050")

(* analisar_documento_juridico returned the load error *)
C18_ErroDevolvido ==
    /\ ~ambiente.spacy
    /\ pc = "analisar_documento_juridico"
    /\ texto = TextoCenario
    /\ retorno.val.erro = "E050"
    /\ retorno.val.sucesso = FALSE

(* C18 as it is stated: whatever is called without the language model       *)
(* raises to its caller.                                                     *)
C18_SempreLevanta ==
    ~ambiente.spacy /\ pc # "processo" => pc = "OSError"

-----------------------------------------------------------------------------
(* C14: every run of main_juridico prints a JSON document with the result,  *)
(* and its exit status is not zero exactly when sucesso of that result is   *)
(* false; without an argument too.                                           *)
C14_SempreJson ==
    pc \in {"sys.exit(0)", "sys.exit(1)"} =>
        /\ retorno.tem
        /\ pc = "sys.exit(1)" <=> retorno.val.sucesso = FALSE

(* an import of main_juridico failed: the process ended with status 1 and   *)
(* printed no JSON document                                                  *)
C14_SemJson ==
    /\ pc = "sys.exit(1)"
    /\ ~ambiente.modulos
    /\ Len(argv) = 2
    /\ retorno = None


-----------------------------------------------------------------------------
(* what the first analysis returned, as retorno keeps it, is what the       *)
(* second one returned                                                       *)
MesmaSaida ==
    /\ retorno.val.informacoes_processuais = informacoes
    /\ retorno.val.partes = partes
    /\ retorno.val.decisao = decisao
    /\ retorno.val.resumo_executivo = resumo_executivo
    /\ retorno.val.palavras_chave = palavras_chave
    /\ retorno.val.confianca_analise = confianca

(* C11: the same text analysed twice, with the same store and the same      *)
(* models, gives the same output twice.                                      *)
C11_MesmaSaida ==
    pc = "outro_processo" => MesmaSaida

(* the text names two kinds of action, and the two analyses list them in    *)
(* different orders, in tipo_acao and in the summary made from it            *)
C11_OutraOrdem ==
    /\ pc = "outro_processo"
    /\ Len(informacoes.tipo_acao) = 2
    /\ retorno.val.informacoes_processuais.tipo_acao
           = <<informacoes.tipo_acao[2], informacoes.tipo_acao[1]>>
    /\ retorno.val.resumo_executivo # resumo_executivo
    /\ retorno.val.partes = partes
    /\ retorno.val.decisao = decisao


-----------------------------------------------------------------------------
(* C21: in the executive summary, a decision with the outcome               *)
(* 'Improcedente' carries the observation 'Decisão favorável ao réu' and    *)
(* not 'Decisão favorável ao autor'; the observation in favour of the       *)
(* plaintiff appears only for 'Procedente' and 'Parcialmente procedente'.   *)
C21_Observacoes ==
    (pc = "analisar_processo_completo" /\ decisao.tem)
        => /\ decisao.val.resultado = <<"I", "m", "p", "r", "o", "c", "e", "d", "e", "n", "t", "e">>
                => /\ Contains(resumo_executivo, <<"D", "e", "c", "i", "s", "ã", "o", " ", "f", "a", "v", "o", "r", "á", "v", "e", "l", " ", "a", "o", " ", "r", "é", "u">>)
                   /\ ~Contains(resumo_executivo, <<"D", "e", "c", "i", "s", "ã", "o", " ", "f", "a", "v", "o", "r", "á", "v", "e", "l", " ", "a", "o", " ", "a", "u", "t", "o", "r">>)
           /\ Contains(resumo_executivo, <<"D", "e", "c", "i", "s", "ã", "o", " ", "f", "a", "v", "o", "r", "á", "v", "e", "l", " ", "a", "o", " ", "a", "u", "t", "o", "r">>)
                => decisao.val.resultado \in {<<"P", "r", "o", "c", "e", "d", "e", "n", "t", "e">>, <<"P", "a", "r", "c", "i", "a", "l", "m", "e", "n", "t", "e", " ", "p", "r", "o", "c", "e", "d", "e", "n", "t", "e">>}

(* C21, the state that refutes it: 'procedente' is a substring of           *)
(* 'improcedente', the first test of the if/elif succeeds and the dismissed *)
(* claim is reported as favourable to the plaintiff                          *)
C21_ImprocedenteAoAutor ==
    /\ pc = "analisar_processo_completo"
    /\ decisao.tem
    /\ decisao.val.resultado = <<"I", "m", "p", "r", "o", "c", "e", "d", "e", "n", "t", "e">>
    /\ Contains(resumo_executivo, <<"O", "B", "S", "E", "R", "V", "A", "Ç", "Õ", "E", "S", ":", " ", "D", "e", "c", "i", "s", "ã", "o", " ", "f", "a", "v", "o", "r", "á", "v", "e", "l", " ", "a", "o", " ", "a", "u", "t", "o", "r">>)
    /\ ~Contains(resumo_executivo, <<"D", "e", "c", "i", "s", "ã", "o", " ", "f", "a", "v", "o", "r", "á", "v", "e", "l", " ", "a", "o", " ", "r", "é", "u">>)

-----------------------------------------------------------------------------
(* no two entries of the list are equal when letter case is ignored *)
SemRepetidosSemCaixa(lista) ==
    \A j, k \in 1..Len(lista) : Lower(lista[j]) = Lower(lista[k]) => j = k

(* no two entries of the list are the same string *)
SemRepetidos(lista) ==
    \A j, k \in 1..Len(lista) : lista[j] = lista[k] => j = k

(* the names the party patterns capture for a role, one per match, in the   *)
(* order the matches are met                                                 *)
Encontrados(lista) ==
    LET achados == AchadosCategoria(texto, padroes.PARTES_PROCESSO, 1)
        vazias == [autores |-> <<>>, reus |-> <<>>, terceiros |-> <<>>, advogados |-> <<>>]
        Um(k) == ClassificaParte(vazias,
                     Strip(SubSeq(texto, achados[k][2], achados[k][3] - 1)),
                     Lower(SubSeq(texto, achados[k][1], achados[k][3] - 1)))[lista]
        RECURSIVE De(_)
        De(k) == IF k > Len(achados) THEN <<>> ELSE Um(k) \o De(k + 1)
    IN  De(1)

(* the list without the later occurrences of a string it already has *)
RECURSIVE PrimeirasDe(_)
PrimeirasDe(lista) ==
    IF lista = <<>> THEN <<>>
    ELSE LET antes == PrimeirasDe(SubSeq(lista, 1, Len(lista) - 1))
             x == lista[Len(lista)]
         IN  IF \E k \in 1..Len(antes) : antes[k] = x THEN antes ELSE Append(antes, x)

-----------------------------------------------------------------------------
(* the keywords the other three steps of extrair_palavras_chave add *)
DeOutroPasso ==
    LET janela == Take(texto, KwJanela)
        palavras_importantes == PalavrasImportantes(Substantivos(janela, doc))
    IN  EntidadesChave(janela, doc)
            \cup {palavras_importantes[k] : k \in 1..Len(palavras_importantes)}
            \cup AreasPresentes(Self, Lower(texto))

(* C23: a term of the fixed list of legal terms is among the keywords, the  *)
(* other steps not having added it, only when it occurs in the text as a    *)
(* whole word; an occurrence inside a longer word does not add it.          *)
C23_TermoInteiro ==
    pc = "extrair_palavras_chave"
        => \A k \in 1..Len(termos_juridicos) :
               (Pertence(termos_juridicos[k], palavras_chave) /\ termos_juridicos[k] \notin DeOutroPasso)
                   => PalavraInteira(Lower(texto), termos_juridicos[k])

(* C23, the state that refutes it: the text has 'leitura' and not the word  *)
(* 'lei'; 'termo in texto.lower()' is a substring test and 'lei' is a       *)
(* keyword                                                                   *)
C23_LeiEmLeitura ==
    /\ pc = "extrair_palavras_chave"
    /\ texto = <<"A", " ", "l", "e", "i", "t", "u", "r", "a", " ", "d", "o", " ", "c", "o", "n", "t", "r", "a", "t", "o", ".">>
    /\ ~PalavraInteira(Lower(texto), <<"l", "e", "i">>)
    /\ <<"l", "e", "i">> \notin DeOutroPasso
    /\ Pertence(<<"l", "e", "i">>, palavras_chave)

-----------------------------------------------------------------------------
(* the text has a term of the tier, in any letter case *)
TemSTF == Ocorre(<<"s", "u", "p", "r", "e", "m", "o", " ", "t", "r", "i", "b", "u", "n", "a", "l", " ", "f", "e", "d", "e", "r", "a", "l">>) \/ Ocorre(<<"s", "t", "f">>)
TemSTJ == Ocorre(<<"s", "u", "p", "e", "r", "i", "o", "r", " ", "t", "r", "i", "b", "u", "n", "a", "l", " ", "d", "e", " ", "j", "u", "s", "t", "i", "ç", "a">>) \/ Ocorre(<<"s", "t", "j">>)
TemSegunda == Ocorre(<<"t", "r", "i", "b", "u", "n", "a", "l">>) \/ Ocorre(<<"d", "e", "s", "e", "m", "b", "a", "r", "g", "a", "d", "o", "r">>) \/ Ocorre(<<"a", "p", "e", "l", "a", "ç", "ã", "o">>)
TemPrimeira == Ocorre(<<"v", "a", "r", "a">>) \/ Ocorre(<<"j", "u", "i", "z", " ", "d", "e", " ", "d", "i", "r", "e", "i", "t", "o">>) \/ Ocorre(<<"j", "u", "í", "z", "a", " ", "d", "e", " ", "d", "i", "r", "e", "i", "t", "o">>)

(* C24: _identificar_instancia answers with the first tier that has a term  *)
(* in the text, whatever terms of the other tiers are there: the Supremo,   *)
(* else the Superior Tribunal de Justiça, else the second instance, else    *)
(* the first instance, else the sentinel; it answers one of these five.     *)
C24_Cascata ==
    pc = "_identificar_instancia"
        => /\ TemSTF => retorno.val = <<"S", "u", "p", "r", "e", "m", "o", " ", "T", "r", "i", "b", "u", "n", "a", "l", " ", "F", "e", "d", "e", "r", "a", "l">>
           /\ (~TemSTF /\ TemSTJ) => retorno.val = <<"S", "u", "p", "e", "r", "i", "o", "r", " ", "T", "r", "i", "b", "u", "n", "a", "l", " ", "d", "e", " ", "J", "u", "s", "t", "i", "ç", "a">>
           /\ (~TemSTF /\ ~TemSTJ /\ TemSegunda) => retorno.val = <<"S", "e", "g", "u", "n", "d", "a", " ", "i", "n", "s", "t", "â", "n", "c", "i", "a">>
           /\ (~TemSTF /\ ~TemSTJ /\ ~TemSegunda /\ TemPrimeira)
                  => retorno.val = <<"P", "r", "i", "m", "e", "i", "r", "a", " ", "i", "n", "s", "t", "â", "n", "c", "i", "a">>
           /\ (~TemSTF /\ ~TemSTJ /\ ~TemSegunda /\ ~TemPrimeira)
                  => retorno.val = <<"I", "n", "s", "t", "â", "n", "c", "i", "a", " ", "n", "ã", "o", " ", "i", "d", "e", "n", "t", "i", "f", "i", "c", "a", "d", "a">>
           /\ retorno.val \in {<<"S", "u", "p", "r", "e", "m", "o", " ", "T", "r", "i", "b", "u", "n", "a", "l", " ", "F", "e", "d", "e", "r", "a", "l">>, <<"S", "u", "p", "e", "r", "i", "o", "r", " ", "T", "r", "i", "b", "u", "n", "a", "l", " ", "d", "e", " ", "J", "u", "s", "t", "i", "ç", "a">>,
                               <<"S", "e", "g", "u", "n", "d", "a", " ", "i", "n", "s", "t", "â", "n", "c", "i", "a">>, <<"P", "r", "i", "m", "e", "i", "r", "a", " ", "i", "n", "s", "t", "â", "n", "c", "i", "a">>,
                               <<"I", "n", "s", "t", "â", "n", "c", "i", "a", " ", "n", "ã", "o", " ", "i", "d", "e", "n", "t", "i", "f", "i", "c", "a", "d", "a">>}

(* C24, its case: the terms of all four tiers are in the text, those of the *)
(* first instance first, and the answer is the Supremo                       *)
C24_TodasAsInstancias ==
    /\ pc = "_identificar_instancia"
    /\ TemSTF /\ TemSTJ /\ TemSegunda /\ TemPrimeira
    /\ Contains(texto, <<"2", "ª", " ", "V", "a", "r", "a", ".", " ", "A", "p", "e", "l", "a", "ç", "ã", "o", ".", " ", "S", "T", "J", ".", " ", "S", "T", "F", ".">>)
    /\ retorno.val = <<"S", "u", "p", "r", "e", "m", "o", " ", "T", "r", "i", "b", "u", "n", "a", "l", " ", "F", "e", "d", "e", "r", "a", "l">>

-----------------------------------------------------------------------------
(* match.group(1) of re.search for each of the two patterns of              *)
(* padroes_dispositivo over the text                                         *)
CapturaDispositivo ==
    TextoDoGrupo(texto, PrimeiroCasamento([i \in 1..Len(texto) |-> CasaDispositivo1(texto, i)]))
CapturaTransicao ==
    TextoDoGrupo(texto, PrimeiroCasamento([i \in 1..Len(texto) |-> CasaDispositivo2(texto, i)]))

(* C25: analisar_decisao returns None exactly when neither pattern of       *)
(* padroes_dispositivo matches; otherwise it returns a whole                *)
(* DecisaoJudicial whose operative clause is the capture of the             *)
(* 'dispositivo/decido/julgo/determino' pattern when that one matches and   *)
(* the capture of the 'pelo exposto/ante o exposto/isso posto' pattern      *)
(* otherwise, whose outcome is computed from that capture alone and whose   *)
(* type is computed from the whole text.                                     *)
C25_Dispositivo ==
    pc = "analisar_decisao"
        => /\ decisao.tem <=> (CapturaDispositivo.tem \/ CapturaTransicao.tem)
           /\ decisao.tem
                => /\ DOMAIN decisao.val = {"tipo_decisao", "resultado", "dispositivo",
                                            "fundamentacao_resumida", "data_decisao"}
                   /\ decisao.val.tipo_decisao = _classificar_tipo_decisao(texto)
           /\ CapturaDispositivo.tem
                => /\ decisao.val.dispositivo = Strip(CapturaDispositivo.val)
                   /\ decisao.val.resultado = _determinar_resultado_decisao(CapturaDispositivo.val)
           /\ (~CapturaDispositivo.tem /\ CapturaTransicao.tem)
                => /\ decisao.val.dispositivo = Strip(CapturaTransicao.val)
                   /\ decisao.val.resultado = _determinar_resultado_decisao(CapturaTransicao.val)

(* C25, its case: both patterns match, the transition pattern earlier in    *)
(* the text and on a clause that dismisses; the clause kept is the one      *)
(* after 'Julgo', the outcome is 'Procedente' although the text has         *)
(* 'improcedente', and the type comes from a sentence after the clause      *)
C25_DoisPadroes ==
    /\ pc = "analisar_decisao"
    /\ CapturaDispositivo.tem /\ CapturaTransicao.tem
    /\ _determinar_resultado_decisao(CapturaTransicao.val) = <<"I", "m", "p", "r", "o", "c", "e", "d", "e", "n", "t", "e">>
    /\ Ocorre(<<"i", "m", "p", "r", "o", "c", "e", "d", "e", "n", "t", "e">>)
    /\ decisao.tem
    /\ decisao.val.dispositivo = <<"p", "r", "o", "c", "e", "d", "e", "n", "t", "e", " ", "a", " ", "a", "ç", "ã", "o", ".">>
    /\ decisao.val.resultado = <<"P", "r", "o", "c", "e", "d", "e", "n", "t", "e">>
    /\ ~Contains(Lower(decisao.val.dispositivo), <<"a", "c", "ó", "r", "d", "ã", "o">>)
    /\ decisao.val.tipo_decisao = <<"A", "c", "ó", "r", "d", "ã", "o">>

-----------------------------------------------------------------------------
(* the number of keywords of the a-th area of the store that occur in       *)
(* texto.lower()                                                             *)
PalavrasDaArea(a) ==
    Cardinality({k \in 1..Len(tipos_processuais[a].keywords) :
                   Ocorre(tipos_processuais[a].keywords[k])})

(* the areas of the store identificar_tipo_acao scores *)
AreasConhecidas ==
    {a \in 1..Len(tipos_processuais) :
       tipos_processuais[a].area \in {<<"C", "I", "V", "E", "L">>, <<"P", "E", "N", "A", "L">>, <<"T", "R", "A", "B", "A", "L", "H", "I", "S", "T", "A">>, <<"A", "D", "M", "I", "N", "I", "S", "T", "R", "A", "T", "I", "V", "O">>}}

(* C26: the list identificar_tipo_acao returns is not empty and has no      *)
(* entry twice; it has the label of a known area exactly when at least two  *)
(* of the keywords of the area occur in the lowercased text, together with  *)
(* every match of the action-type patterns; and it is the sentinel 'Tipo    *)
(* não identificado', alone, exactly when no pattern matched and no area    *)
(* reached two keywords.                                                     *)
C26_TiposDeAcao ==
    pc = "identificar_tipo_acao"
        => LET achados == AchadosTipoAcao(Self, texto)
               Rotulo(a) == <<"P", "r", "o", "c", "e", "s", "s", "o", " ">> \o Lower(tipos_processuais[a].area)
               pontuadas == {a \in AreasConhecidas : PalavrasDaArea(a) >= 2}
           IN  /\ Len(retorno.val) >= 1
               /\ SemRepetidos(retorno.val)
               /\ \A a \in AreasConhecidas : Pertence(Rotulo(a), retorno.val) <=> a \in pontuadas
               /\ \A achado \in achados : Pertence(achado, retorno.val)
               /\ Pertence(<<"T", "i", "p", "o", " ", "n", "ã", "o", " ", "i", "d", "e", "n", "t", "i", "f", "i", "c", "a", "d", "o">>, retorno.val)
                      <=> (achados = {} /\ pontuadas = {})
               /\ Pertence(<<"T", "i", "p", "o", " ", "n", "ã", "o", " ", "i", "d", "e", "n", "t", "i", "f", "i", "c", "a", "d", "o">>, retorno.val) => Len(retorno.val) = 1
               /\ \A k \in 1..Len(retorno.val) :
                      \/ retorno.val[k] \in achados
                      \/ \E a \in AreasConhecidas : retorno.val[k] = Rotulo(a)
                      \/ retorno.val[k] = <<"T", "i", "p", "o", " ", "n", "ã", "o", " ", "i", "d", "e", "n", "t", "i", "f", "i", "c", "a", "d", "o">>

(* C26, its case: one keyword of the civil area only, two of the penal      *)
(* area, and an action type matched; the list has the penal label and the   *)
(* match, and neither the civil label nor the sentinel                       *)
C26_UmaAreaComDuas ==
    /\ pc = "identificar_tipo_acao"
    /\ \E a \in AreasConhecidas : tipos_processuais[a].area = <<"C", "I", "V", "E", "L">> /\ PalavrasDaArea(a) = 1
    /\ \E a \in AreasConhecidas : tipos_processuais[a].area = <<"P", "E", "N", "A", "L">> /\ PalavrasDaArea(a) = 2
    /\ Len(retorno.val) = 2
    /\ Pertence(<<"P", "r", "o", "c", "e", "s", "s", "o", " ", "p", "e", "n", "a", "l">>, retorno.val)
    /\ Pertence(<<"a", "ç", "ã", "o", " ", " ", "p", "e", "n", "a", "l">>, retorno.val)

-----------------------------------------------------------------------------
(* the stages run so far, by name *)
Etapas == [k \in 1..Len(chamadas) |-> chamadas[k].etapa]

(* the stage ran and its result says it failed: validacao without valido,   *)
(* extraction without sucesso, an analysis that ended in the failure branch *)
(* of analisar_documento_juridico or of analisar_documento                  *)
Falhou(etapa) ==
    /\ \E k \in 1..Len(chamadas) : chamadas[k].etapa = etapa
    /\ CASE etapa = "validacao" -> ~Resultado(etapa).valido
         [] etapa = "extracao" -> ~Resultado(etapa).sucesso
         [] etapa = "analise" -> "erro" \in DOMAIN Resultado(etapa)
         [] OTHER -> ~Resultado(etapa).sucesso

(* the steps agree with processar_documento_completo as one call *)
ComoUmaChamada ==
    pc = "processar_documento_completo"
        => retorno.val \in processar_documento_completo(argv[2], ambiente, doc, sem)

(* C27: for one document the stages validation, extraction, analysis and    *)
(* report run at most once each and in that order; a stage starts only if   *)
(* every stage before it succeeded; and when one of validation, extraction  *)
(* and analysis fails, no later stage runs and the response has sucesso     *)
(* False and fase_erro naming the stage that failed.                         *)
C27_Ordem ==
    /\ \E n \in 0..4 : Etapas = SubSeq(<<"validacao", "extracao", "analise", "relatorio">>, 1, n)
    /\ \A k \in 2..Len(chamadas) : ~Falhou(Etapas[k - 1])
    /\ (pc = "processar_documento_completo"
          /\ \E etapa \in {"validacao", "extracao", "analise"} : Falhou(etapa))
        => /\ Falhou(Etapas[Len(chamadas)])
           /\ retorno.val.sucesso = FALSE
           /\ retorno.val.fase_erro = Etapas[Len(chamadas)]

(* C27, the state that refutes it: the analysis ended in the failure branch *)
(* with an exception whose message is empty; 'if resultado_analise.get(     *)
(* "erro")' finds the empty string falsy, the report stage runs on the      *)
(* error dictionary and the response says success                            *)
C27_RelatorioAposFalha ==
    /\ pc = "processar_documento_completo"
    /\ Etapas = <<"validacao", "extracao", "analise", "relatorio">>
    /\ Falhou("analise")
    /\ Resultado("analise").sucesso = FALSE
    /\ Resultado("analise").erro = ""
    /\ retorno.val.sucesso = TRUE
    /\ "fase_erro" \notin DOMAIN retorno.val

-----------------------------------------------------------------------------
(* C28: whenever analisar_documento_juridico ended in its failure branch,   *)
(* whatever the message of the exception, the empty one included,           *)
(* processar_documento_completo returns sucesso False with fase_erro        *)
(* 'analise' and no report was generated.                                    *)
C28_FalhaDetectada ==
    (/\ pc = "processar_documento_completo"
     /\ \E k \in 1..Len(chamadas) :
           /\ chamadas[k].etapa = "analise"
           /\ DOMAIN chamadas[k].resultado = {"erro", "timestamp_erro", "sucesso"})
        => /\ retorno.val.sucesso = FALSE
           /\ retorno.val.fase_erro = "analise"
           /\ \A k \in 1..Len(chamadas) : chamadas[k].etapa # "relatorio"

(* C28, the state that refutes it: a step of the analysis raised with an    *)
(* empty message, the error dictionary went through both truthiness tests,  *)
(* a report was generated from it and the response has sucesso True, the    *)
(* error dictionary as resultado_completo and the default summary            *)
C28_MensagemVazia ==
    /\ pc = "processar_documento_completo"
    /\ ambiente.falha.etapa # "nenhuma" /\ ambiente.falha.mensagem = ""
    /\ Etapas = <<"validacao", "extracao", "analise", "relatorio">>
    /\ Resultado("analise") = ResultadoDeErro("")
    /\ ambiente.relatorio = "gerado"
    /\ Resultado("relatorio").relatorio_gerado
    /\ retorno.val.sucesso
    /\ retorno.val.resultado_completo = ResultadoDeErro("")
    /\ retorno.val.relatorio_pdf.gerado
    /\ retorno.val.resumo_analise.numero_processo = <<"N", "ã", "o", " ", "i", "d", "e", "n", "t", "i", "f", "i", "c", "a", "d", "o">>

-----------------------------------------------------------------------------
(* C29: when the report stage ran and gerar_relatorio_final returned        *)
(* sucesso False, from gerar_relatorio_pdf or from its own except clause,   *)
(* processar_documento_completo returns sucesso True, the whole result of   *)
(* the analysis as resultado_completo, and relatorio_pdf.gerado False.      *)
C29_RelatorioNaoDerruba ==
    (/\ pc = "processar_documento_completo"
     /\ Len(chamadas) = 4
     /\ ~Resultado("relatorio").sucesso)
        => /\ retorno.val.sucesso = TRUE
           /\ "fase_erro" \notin DOMAIN retorno.val
           /\ retorno.val.resultado_completo = Resultado("analise")
           /\ retorno.val.relatorio_pdf.gerado = FALSE
           /\ retorno.val.relatorio_pdf.caminho = None

(* C29, its case: the analysis succeeded, gerar_relatorio_pdf raised and    *)
(* the except clause of gerar_relatorio_final answered; the response has    *)
(* the analysis and says that no report was generated                        *)
C29_AnaliseSemRelatorio ==
    /\ pc = "processar_documento_completo"
    /\ ambiente.relatorio = "excecao"
    /\ Len(chamadas) = 4
    /\ "erro" \notin DOMAIN Resultado("analise")
    /\ "stack_trace" \in DOMAIN Resultado("relatorio")
    /\ ~Resultado("relatorio").sucesso
    /\ retorno.val.sucesso = TRUE
    /\ retorno.val.resultado_completo.analise_completa = Resultado("analise").analise_completa
    /\ retorno.val.resumo_analise.tem_decisao = TRUE
    /\ retorno.val.relatorio_pdf.gerado = FALSE

-----------------------------------------------------------------------------
(* the method ran and did not succeed *)
MetodoFalhou(metodo) ==
    /\ \E k \in 1..Len(chamadas) : chamadas[k].etapa = metodo
    /\ ~Resultado(metodo).sucesso

(* C30: extrair_texto_hibrido runs PyMuPDF, then pdfplumber, then OCR; it   *)
(* returns the result of the first method that succeeded and, for PyMuPDF   *)
(* and pdfplumber, whose text has a quality above 0.7 and above 0.6, and    *)
(* runs no method after it; it returns 'Falha em todos os métodos de        *)
(* extração' only when all three methods have failed.                        *)
C30_Hibrido ==
    /\ \E n \in 0..3 : Etapas = SubSeq(<<"pymupdf", "pdfplumber", "ocr">>, 1, n)
    /\ \A k \in 1..(Len(chamadas) - 1) : ~Aproveitado(Etapas[k], chamadas[k].resultado)
    /\ pc = "extrair_texto_hibrido"
        => /\ retorno.val.sucesso
                => /\ retorno.val = chamadas[Len(chamadas)].resultado
                   /\ Aproveitado(Etapas[Len(chamadas)], retorno.val)
           /\ ~retorno.val.sucesso
                => /\ retorno.val.erro = "Falha em todos os métodos de extração"
                   /\ MetodoFalhou("pymupdf")
                   /\ MetodoFalhou("pdfplumber")
                   /\ MetodoFalhou("ocr")

(* C30, the state that refutes it: PyMuPDF and pdfplumber both succeeded    *)
(* and extracted two sentences of a ruling, whose quality is 0.49; OCR      *)
(* failed; the text is discarded and the failure of all the methods is      *)
(* returned, with no error to show for the first two                         *)
C30_TextoDescartado ==
    /\ pc = "extrair_texto_hibrido"
    /\ Etapas = <<"pymupdf", "pdfplumber", "ocr">>
    /\ Resultado("pymupdf").sucesso
    /\ Contains(Resultado("pymupdf").texto_completo, <<"J", "u", "l", "g", "o", " ", "p", "r", "o", "c", "e", "d", "e", "n", "t", "e", " ", "o", " ", "p", "e", "d", "i", "d", "o", ".">>)
    /\ Resultado("pdfplumber").sucesso
    /\ Resultado("pdfplumber").texto_completo = Resultado("pymupdf").texto_completo
    /\ ~Resultado("ocr").sucesso
    /\ ~retorno.val.sucesso
    /\ retorno.val.erro = "Falha em todos os métodos de extração"
    /\ retorno.val.detalhes = [pymupdf |-> None, pdfplumber |-> None, ocr |-> "falha"]
=============================================================================
